---- MODULE Spec2Model ----
(***************************************************************************)
(* A model of the rate-limiting middleware of ratelimit/ratelimit.go: the  *)
(* request pipeline (derive, charge, decide, respond, reconcile), the      *)
(* weights refresher, the health prober and the fallback limiter.          *)
(*                                                                         *)
(* Strings that the code joins or splits on ":" are modelled as the        *)
(* sequence of their colon-free segments, so that fmt.Sprintf with ":"     *)
(* between the operands is sequence concatenation, strings.Split(k, ":")   *)
(* is the sequence itself and strings.ReplaceAll(s, ":", "_") joins the    *)
(* segments with "_".  The clock counts milliseconds.                      *)
(***************************************************************************)
EXTENDS Integers, Sequences, FiniteSets, TLC

----------------------------------------------------------------------------
(* Bounds of the model *)

\* concurrent requests in flight
NumReqs == 2
\* clock advances in one behaviour
MaxTicks == 2
\* requests that reach the shared store in one behaviour
MaxCharges == 3
\* pipelines that fail in one behaviour
MaxFaults == 1
\* the model's month lasts this many hours (the calendar's lasts 672 to 744)
HoursPerMonth == 2

----------------------------------------------------------------------------
(* Program constants *)

DefaultRateLimitSecond == 2
DefaultRateLimitHour == 500
DefaultRateLimitMonth == 0
FallbackRateLimitSecond == 20
FallbackRateLimitBurst == 20
\* time.Second in clock units
MsPerSecond == 1000
\* time.Hour in seconds
SecondsPerHour == 3600
\* the margin added to the hour and month expiry, in seconds
ExpireMarginSeconds == 60
\* the reaper evicts a fallback client unseen for more than this many minutes
ReaperIdleMinutes == 3
StatusOK == 200
StatusTooManyRequests == 429
mgetSize == 500

defaultBucket == "default"
SecondTimeWindow == "second"
HourTimeWindow == "hour"
MonthTimeWindow == "month"

HeaderRateLimitLimit == "X-RateLimit-Limit"
HeaderRateLimitRemaining == "X-RateLimit-Remaining"
HeaderRateLimitReset == "X-RateLimit-Reset"
HeaderRetryAfter == "Retry-After"
HeaderRateLimitLimitSecond == "X-RateLimit-Limit-Second"
HeaderRateLimitLimitHour == "X-RateLimit-Limit-Hour"
HeaderRateLimitLimitMonth == "X-RateLimit-Limit-Month"

----------------------------------------------------------------------------
VARIABLES
    now,                 \* the wall clock, in milliseconds
    ticks,               \* how often the clock has advanced
    store,               \* the shared store: key -> [val, exp]
    charges,             \* history: how many requests have reached the shared store
    faults,              \* history: how many pipelines have failed
    redisIsHealthy,      \* the published health flag
    NoKeyRateLimit,      \* the object NoKeyRateLimit and FreeRatelimit both point to
    rateLimits,          \* the interning table "s/h/m" -> quota
    rateLimitsByUserId,  \* user id -> pointer into rateLimits
    userIdByApiKey,      \* api key -> user id
    weights,             \* route -> weight
    buckets,             \* route -> bucket
    clients,             \* the fallback limiter's clients: key -> [tokens, last, lastSeen]
    burst,               \* history: key -> requests the fallback limiter admitted at this instant
    req,                 \* the requests in flight
    initializedWg,       \* the counter of the wait group Init and HttpMiddleware wait on
    firstRun,            \* worker -> whether its goroutine still holds firstRun = true
    passes,              \* history: worker -> its successful passes, counted up to 2
    db,                  \* the relational store: api_keys, api_ratelimits, api_products, api_statistics
    lastRateLimitUpdateKeys,        \* the newest changed_at seen in api_keys
    lastRateLimitUpdateRateLimits,  \* the newest changed_at seen in api_ratelimits
    refreshedAt,         \* history: the instant of the last successful updateRateLimits
    scanner,             \* the position of updateStats and what it holds
    tally,               \* history: stats key -> requests charged to it that ended with 200
    deleted,             \* history: stats key -> how often updateStats has removed it
    admitted,            \* history: counter key -> the weight admitted under it and not refunded
    dbRuns               \* history: the runs of DBUpdate that have completed

clock == <<now, ticks>>
redis == <<store, charges, faults>>
tables == <<NoKeyRateLimit, rateLimits, rateLimitsByUserId, userIdByApiKey>>
weightTables == <<weights, buckets>>
fallback == <<clients, burst>>
latches == <<initializedWg, firstRun, passes>>
database == <<db, lastRateLimitUpdateKeys, lastRateLimitUpdateRateLimits, refreshedAt>>
background == <<latches, database, scanner, tally, deleted, admitted, dbRuns>>
vars == <<now, ticks, store, charges, faults, redisIsHealthy, NoKeyRateLimit, rateLimits,
          rateLimitsByUserId, userIdByApiKey, weights, buckets, clients, burst, req,
          initializedWg, firstRun, passes, db, lastRateLimitUpdateKeys,
          lastRateLimitUpdateRateLimits, refreshedAt, scanner, tally, deleted,
          admitted, dbRuns>>

Reqs == 1..NumReqs

----------------------------------------------------------------------------
(* Helpers *)

Max(a, b) == IF a >= b THEN a ELSE b
Min(a, b) == IF a <= b THEN a ELSE b

\* the partial function that is defined nowhere
EmptyMap == [x \in {} |-> x]

\* a history's count for a key
Count(f, k) == IF k \in DOMAIN f THEN f[k] ELSE 0

\* the partial function f without the key k
Remove(f, k) == [x \in DOMAIN f \ {k} |-> f[x]]

\* the partial function f with k bound to v
Put(f, k, v) == [x \in DOMAIN f \cup {k} |-> IF x = k THEN v ELSE f[x]]

RECURSIVE Join(_, _)
\* the segments of a string joined again with sep in place of each ":"
Join(segs, sep) ==
    IF Len(segs) = 0 THEN ""
    ELSE IF Len(segs) = 1 THEN segs[1]
    ELSE segs[1] \o sep \o Join(Tail(segs), sep)

----------------------------------------------------------------------------
(* Time *)

MsPerHour == SecondsPerHour * MsPerSecond

\* the hour and the month an instant lies in, counted from the epoch
HourOf(t) == t \div MsPerHour
MonthOf(t) == HourOf(t) \div HoursPerMonth

\* time.Now().Truncate(time.Hour).Add(time.Hour)
NextHourUtc(t) == (HourOf(t) + 1) * MsPerHour

\* time.Date(year, month+1, 1, 0, 0, 0, 0, time.UTC)
NextMonthUtc(t) == (MonthOf(t) + 1) * HoursPerMonth * MsPerHour

\* int64(d.Seconds()) of a duration d >= 0: the fraction is cut off
Seconds(d) == d \div MsPerSecond

\* the clock's next stop: a second later and then the expiry margin later,
\* so that from the last second of an hour it passes the end of the hour and then
\* the expiry of the hour's keys
TickStep(n) == IF n = 0 THEN MsPerSecond ELSE ExpireMarginSeconds * MsPerSecond

\* the "%04d-%02d-%02d-%02d" rendering of an instant's hour: one string per hour
HourStr(t) == "H" \o ToString(HourOf(t))

\* the "%04d-%02d" rendering of an instant's month: one string per month
MonthStr(t) == "M" \o ToString(MonthOf(t))

----------------------------------------------------------------------------
(* Keys of the shared store *)

\* fmt's rendering of an int64 under the verb %s
BadVerbString(uid) == "%!s(int64=" \o ToString(uid) \o ")"

\* fmt.Sprintf("ratelimit:second:%s:%s", res.Bucket, res.UserId)
RateLimitSecondKey(res) ==
    <<"ratelimit", "second", res.Bucket, BadVerbString(res.UserId)>>

\* fmt.Sprintf("ratelimit:hour:%04d-%02d-%02d-%02d:%s:%d", ..., res.Bucket, res.UserId)
RateLimitHourKey(res) ==
    <<"ratelimit", "hour", HourStr(res.Time), res.Bucket, ToString(res.UserId)>>

\* fmt.Sprintf("ratelimit:month:%04d-%02d:%s:%d", ..., res.Bucket, res.UserId)
RateLimitMonthKey(res) ==
    <<"ratelimit", "month", MonthStr(res.Time), res.Bucket, ToString(res.UserId)>>

\* the stats key: the user id, or "nokey" for a request without a valid key
StatsKey(res) ==
    <<"ratelimit", "stats", HourStr(res.Time),
      IF res.IsValidKey THEN ToString(res.UserId) ELSE "nokey">> \o res.Route

----------------------------------------------------------------------------
(* The shared store: INCRBY, DECRBY, EXPIRE NX, EXPIREAT and key expiry *)

\* the expiry of a key that has none
NoExpiry == 0 - 1

Val(s, k) == IF k \in DOMAIN s THEN s[k].val ELSE 0

IncrBy(s, k, n) ==
    IF k \in DOMAIN s THEN [s EXCEPT ![k].val = @ + n]
    ELSE Put(s, k, [val |-> n, exp |-> NoExpiry])

\* EXPIRE key ttl NX: sets the expiry only when the key has none
ExpireNX(s, k, ttl, t) ==
    IF k \in DOMAIN s /\ s[k].exp = NoExpiry THEN [s EXCEPT ![k].exp = t + ttl]
    ELSE s

\* EXPIREAT key at: an instant that has passed deletes the key
ExpireAt(s, k, at, t) ==
    IF k \notin DOMAIN s THEN s
    ELSE IF at <= t THEN Remove(s, k)
    ELSE [s EXCEPT ![k].exp = at]

\* the keys whose expiry has passed are gone
Expire(s, t) ==
    [k \in {x \in DOMAIN s : s[x].exp = NoExpiry \/ s[x].exp > t} |-> s[k]]

\* one command of a pipeline at instant t
Apply(s, c, t) ==
    CASE c.op = "incrby" -> IncrBy(s, c.key, c.arg)
      [] c.op = "incr" -> IncrBy(s, c.key, 1)
      [] c.op = "decrby" -> IncrBy(s, c.key, 0 - c.arg)
      [] c.op = "expirenx" -> ExpireNX(s, c.key, c.arg, t)
      [] c.op = "expireat" -> ExpireAt(s, c.key, c.arg, t)

RECURSIVE ApplyAll(_, _, _)
\* the commands of a pipeline, in order
ApplyAll(s, cmds, t) ==
    IF Len(cmds) = 0 THEN s
    ELSE ApplyAll(Apply(s, Head(cmds), t), Tail(cmds), t)

Cmd(op, key, arg) == [op |-> op, key |-> key, arg |-> arg]

----------------------------------------------------------------------------
(* Key and weight derivation, reference-table lookup *)

\* the one object both NoKeyRateLimit and FreeRatelimit point to
NoKeyPtr == "NoKeyRateLimit"

\* var FreeRatelimit = NoKeyRateLimit
FreeRatelimit == NoKeyPtr

\* fmt.Sprintf("%d/%d/%d", second, hour, month): the name of an interned quota
RlStr(q) == ToString(q.Second) \o "/" \o ToString(q.Hour) \o "/" \o ToString(q.Month)

\* the quota a *RateLimit points to, read now
Deref(p) == IF p = NoKeyPtr THEN NoKeyRateLimit ELSE rateLimits[p]

\* getKey: the query parameter, then the header, then the address
getKey(q) ==
    IF q.query # "" THEN q.query
    ELSE IF q.header # "" THEN q.header
    ELSE "ip_" \o Join(q.ip, "_")

\* getWeight: the weight and the bucket of a route, each with its own default
getWeight(route) ==
    [Weight |-> IF route \in DOMAIN weights THEN weights[route] ELSE 1,
     Bucket |-> IF route \in DOMAIN buckets THEN buckets[route] ELSE defaultBucket]

\* the lookup under rateLimitsMu.RLock
LookupRateLimit(key) ==
    IF key \notin DOMAIN userIdByApiKey
    THEN [UserId |-> 0 - 1, IsValidKey |-> FALSE, RateLimit |-> NoKeyPtr]
    ELSE LET userId == userIdByApiKey[key] IN
         [UserId |-> userId, IsValidKey |-> TRUE,
          RateLimit |-> IF userId \in DOMAIN rateLimitsByUserId
                        THEN rateLimitsByUserId[userId] ELSE FreeRatelimit]

\* the zero value of RateLimitResult
NoResult ==
    [Time |-> 0, Weight |-> 0, Route |-> <<>>, IP |-> <<>>, Key |-> "",
     IsValidKey |-> FALSE, UserId |-> 0, RedisKeys |-> <<>>, RedisStatsKey |-> <<>>,
     RateLimit |-> "", Limit |-> 0, Remaining |-> 0, Reset |-> 0, Bucket |-> "",
     Window |-> ""]

\* rateLimitRequest up to the stats key: what the request is, before the store is asked
Derive(q, t) ==
    LET look == LookupRateLimit(getKey(q))
        w == getWeight(q.route)
        res == [NoResult EXCEPT !.Key = getKey(q), !.IP = q.ip,
                    !.UserId = look.UserId, !.IsValidKey = look.IsValidKey,
                    !.RateLimit = look.RateLimit,
                    !.Weight = w.Weight, !.Route = q.route, !.Bucket = w.Bucket,
                    !.Time = t]
    IN [res EXCEPT !.RedisStatsKey = StatsKey(res)]

\* the instants the hour and the month key are told to expire at
HourExpireAt(res) == NextHourUtc(res.Time) + ExpireMarginSeconds * MsPerSecond
MonthExpireAt(res) == NextMonthUtc(res.Time) + ExpireMarginSeconds * MsPerSecond

\* a charge pipeline that adds to the second counter whatever its limit
ChargeCmdsSecondAlways(res, rl) ==
    <<Cmd("incrby", RateLimitSecondKey(res), res.Weight),
      Cmd("expirenx", RateLimitSecondKey(res), MsPerSecond)>>
    \o (IF rl.Hour > 0
        THEN <<Cmd("incrby", RateLimitHourKey(res), res.Weight),
               Cmd("expireat", RateLimitHourKey(res), HourExpireAt(res))>>
        ELSE <<>>)
    \o (IF rl.Month > 0
        THEN <<Cmd("incrby", RateLimitMonthKey(res), res.Weight),
               Cmd("expireat", RateLimitMonthKey(res), MonthExpireAt(res))>>
        ELSE <<>>)
    \o <<Cmd("incr", res.RedisStatsKey, 1)>>

\* the commands of the charge pipeline for the quota rl
ChargeCmds(res, rl) ==
    (IF rl.Second > 0
     THEN <<Cmd("incrby", RateLimitSecondKey(res), res.Weight),
            Cmd("expirenx", RateLimitSecondKey(res), MsPerSecond)>>
     ELSE <<>>)
    \o (IF rl.Hour > 0
        THEN <<Cmd("incrby", RateLimitHourKey(res), res.Weight),
               Cmd("expireat", RateLimitHourKey(res), HourExpireAt(res))>>
        ELSE <<>>)
    \o (IF rl.Month > 0
        THEN <<Cmd("incrby", RateLimitMonthKey(res), res.Weight),
               Cmd("expireat", RateLimitMonthKey(res), MonthExpireAt(res))>>
        ELSE <<>>)
    \o <<Cmd("incr", res.RedisStatsKey, 1)>>

\* res.RedisKeys: the hour and month keys charged, each with its expiry
ChargedRedisKeys(res, rl) ==
    (IF rl.Hour > 0
     THEN <<[Key |-> RateLimitHourKey(res), ExpireAt |-> HourExpireAt(res)]>>
     ELSE <<>>)
    \o (IF rl.Month > 0
        THEN <<[Key |-> RateLimitMonthKey(res), ExpireAt |-> MonthExpireAt(res)]>>
        ELSE <<>>)

----------------------------------------------------------------------------
(* The decision rule and the response *)

\* one window of the decision rule; acc.ret says that an earlier window returned
WindowRule(acc, enforced, val, limit, reset, window) ==
    IF acc.ret \/ ~enforced THEN acc
    ELSE IF val > limit
    THEN [ret |-> TRUE,
          res |-> [acc.res EXCEPT !.Limit = limit, !.Remaining = 0,
                                  !.Reset = reset, !.Window = window]]
    ELSE IF limit - val > acc.res.Limit
    THEN [ret |-> FALSE,
          res |-> [acc.res EXCEPT !.Limit = limit, !.Remaining = limit - val,
                                  !.Reset = reset, !.Window = window]]
    ELSE acc

\* seconds until the hour and the month of the request end
TimeUntilNextHourUtc(res) == Seconds(NextHourUtc(res.Time) - res.Time)
TimeUntilNextMonthUtc(res) == Seconds(NextMonthUtc(res.Time) - res.Time)

\* rateLimitRequest after the pipeline: second, then hour, then month
Decide(res, rl, vals) ==
    LET a1 == WindowRule([ret |-> FALSE, res |-> res], rl.Second > 0, vals.Second,
                         rl.Second, 1, SecondTimeWindow)
        a2 == WindowRule(a1, rl.Hour > 0, vals.Hour, rl.Hour,
                         TimeUntilNextHourUtc(res), HourTimeWindow)
        a3 == WindowRule(a2, rl.Month > 0, vals.Month, rl.Month,
                         TimeUntilNextMonthUtc(res), MonthTimeWindow)
    IN a3.res

\* strconv.FormatInt(n, 10)
FormatInt(n) == ToString(n)

\* a middleware that sets the header of every window
RateLimitHeadersAllWindows(res, rl) ==
    (HeaderRateLimitLimit :> FormatInt(res.Limit))
    @@ (HeaderRateLimitRemaining :> FormatInt(res.Remaining))
    @@ (HeaderRateLimitReset :> FormatInt(res.Reset))
    @@ (HeaderRateLimitLimitSecond :> FormatInt(rl.Second))
    @@ (HeaderRateLimitLimitHour :> FormatInt(rl.Hour))
    @@ (HeaderRateLimitLimitMonth :> FormatInt(rl.Month))

\* the headers the middleware sets for a metered request
RateLimitHeaders(res, rl) ==
    LET h0 == (HeaderRateLimitLimit :> FormatInt(res.Limit))
              @@ (HeaderRateLimitRemaining :> FormatInt(res.Remaining))
              @@ (HeaderRateLimitReset :> FormatInt(res.Reset))
        h1 == IF rl.Second > 0
              THEN Put(h0, HeaderRateLimitLimitSecond, FormatInt(rl.Second)) ELSE h0
        h2 == IF rl.Hour > 0
              THEN Put(h1, HeaderRateLimitLimitHour, FormatInt(rl.Hour)) ELSE h1
    IN IF rl.Month > 0
       THEN Put(h2, HeaderRateLimitLimitMonth, FormatInt(rl.Month)) ELSE h2

\* the middleware's test for rejecting the request
TooManyRequests(res) == res.Weight > res.Remaining

----------------------------------------------------------------------------
(* The upstream handler seen through responseWriterDelegator *)

\* a handler is the calls it makes on its writer: WriteHeader(c) is c, Write is 0
WriteCall == 0

\* ResponseWriter.WriteHeader of net/http: the first status is the one sent
SendHeader(sent, code) == IF sent = 0 THEN code ELSE sent

\* one call on the delegator d = [status, sent]; wroteHeader is never set, so
\* Write calls WriteHeader(200) every time
DelegatorCall(d, c) ==
    IF c = WriteCall
    THEN [status |-> StatusOK, sent |-> SendHeader(d.sent, StatusOK)]
    ELSE [status |-> c, sent |-> SendHeader(d.sent, c)]

RECURSIVE RunHandler(_, _)
\* the delegator after the handler's calls
RunHandler(d, script) ==
    IF Len(script) = 0 THEN d
    ELSE RunHandler(DelegatorCall(d, Head(script)), Tail(script))

\* net/http sends 200 when the handler returns without a status
Finish(sent) == IF sent = 0 THEN StatusOK ELSE sent

----------------------------------------------------------------------------
(* Reconciliation *)

RECURSIVE RefundKeys(_, _)
\* DecrBy and ExpireAt for each key the charge recorded
RefundKeys(keys, weight) ==
    IF Len(keys) = 0 THEN <<>>
    ELSE <<Cmd("decrby", Head(keys).Key, weight),
           Cmd("expireat", Head(keys).Key, Head(keys).ExpireAt)>>
         \o RefundKeys(Tail(keys), weight)

\* a reconciliation without "if statusCode == http.StatusOK { return nil }"
PostRateLimitCmdsAlways(res, status) ==
    RefundKeys(res.RedisKeys, res.Weight) \o <<Cmd("decrby", res.RedisStatsKey, 1)>>

\* a postRateLimit that looks the weight of the route up again
PostRateLimitCmdsCurrentWeight(res, status) ==
    IF status = StatusOK THEN <<>>
    ELSE RefundKeys(res.RedisKeys, getWeight(res.Route).Weight)
         \o <<Cmd("decrby", res.RedisStatsKey, 1)>>

\* the commands of postRateLimit for an observed status
PostRateLimitCmds(res, status) ==
    IF status = StatusOK THEN <<>>
    ELSE RefundKeys(res.RedisKeys, res.Weight)
         \o <<Cmd("decrby", res.RedisStatsKey, 1)>>

----------------------------------------------------------------------------
(* The fallback limiter: one rate.Limiter per caller key, tokens in thousandths *)

FullBucket == FallbackRateLimitBurst * MsPerSecond

\* rate.NewLimiter(FallbackRateLimitSecond, FallbackRateLimitBurst): a full bucket
NewLimiter(t) == [tokens |-> FullBucket, last |-> t, lastSeen |-> t]

\* the tokens of a limiter at instant t: refilled at the rate, up to the burst
TokensAt(c, t) == Min(FullBucket, c.tokens + (t - c.last) * FallbackRateLimitSecond)

\* a limiter that lets a request through on an empty bucket
AllowOnEmpty(c, t) == TokensAt(c, t) >= 0

\* limiter.Allow(): whether one token is there
Allow(c, t) == TokensAt(c, t) >= MsPerSecond

\* the limiter after Allow(): a token is taken only when there is one
AfterAllow(c, t) ==
    IF Allow(c, t)
    THEN [c EXCEPT !.tokens = TokensAt(c, t) - MsPerSecond, !.last = t]
    ELSE c

\* the headers of a rejection by the fallback limiter
FallbackHeaders ==
    (HeaderRateLimitLimit :> FormatInt(FallbackRateLimitSecond))
    @@ (HeaderRateLimitReset :> FormatInt(1))

----------------------------------------------------------------------------
(* Requests *)

NoInput == [query |-> "", header |-> "", ip |-> <<>>, route |-> <<>>, selected |-> FALSE]

NoVals == [Second |-> 0, Hour |-> 0, Month |-> 0]

NoQuota == [Second |-> 0, Hour |-> 0, Month |-> 0]

\* a slot no request has used yet
IdleReq ==
    [pc |-> "idle", in |-> NoInput, path |-> "", rl |-> NoResult, seen |-> NoQuota,
     used |-> NoQuota, vals |-> NoVals, issued |-> <<>>, applied |-> 0, refund |-> <<>>,
     reconciled |-> "no", headers |-> EmptyMap, sent |-> 0, status |-> 0,
     handlerCalls |-> 0, live |-> {}]

\* a finished request leaves its slot before anything else happens
NoneDone == \A r \in Reqs : req[r].pc # "done"

\* HttpMiddleware hands out the handler once initializedWg.Wait() has returned; a
\* request starts in the first slot that is free
Free(r) ==
    /\ initializedWg = 0
    /\ NoneDone
    /\ req[r].pc = "idle"
    /\ \A o \in Reqs : o < r => req[o].pc # "idle"

\* the post-increment value the pipeline returned for a key
Returned(s, enforced, key) == IF enforced THEN Val(s, key) ELSE 0

----------------------------------------------------------------------------
(* HttpMiddleware, one action per step of a request *)

\* the request selector says no: the handler is called and nothing else happens
Passthrough(r, q) ==
    /\ Free(r)
    /\ ~q.selected
    /\ req' = [req EXCEPT ![r] =
                  [IdleReq EXCEPT !.pc = "serving", !.in = q, !.path = "passthrough"]]
    /\ UNCHANGED <<background, clock, redis, redisIsHealthy, tables, weightTables, fallback>>

\* the store is flagged unhealthy: FallbackRateLimiter.Handle
FallbackHandle(r, q) ==
    /\ Free(r)
    /\ q.selected
    /\ ~redisIsHealthy
    /\ LET key == getKey(q)
           c0 == IF key \in DOMAIN clients THEN clients[key] ELSE NewLimiter(now)
           c1 == [c0 EXCEPT !.lastSeen = now]
       IN /\ clients' = Put(clients, key, AfterAllow(c1, now))
          /\ IF Allow(c1, now)
             THEN /\ burst' = Put(burst, key,
                                  (IF key \in DOMAIN burst THEN burst[key] ELSE 0) + 1)
                  /\ req' = [req EXCEPT ![r] =
                                [IdleReq EXCEPT !.pc = "serving", !.in = q,
                                                !.path = "fallback"]]
             ELSE /\ burst' = burst
                  /\ req' = [req EXCEPT ![r] =
                                [IdleReq EXCEPT !.pc = "done", !.in = q,
                                                !.path = "fallback",
                                                !.headers = FallbackHeaders,
                                                !.sent = StatusTooManyRequests]]
    /\ UNCHANGED <<background, clock, redis, redisIsHealthy, tables, weightTables>>

\* history: the lifetimes of the counter keys a charge pipeline has incremented,
\* a lifetime being the key and the expiry it carries
Lifetimes(s, cmds) ==
    { <<cmds[i].key, s[cmds[i].key].exp>> :
        i \in { j \in 1..Len(cmds) : cmds[j].op = "incrby" } }

\* history: the lifetimes of the keys the store holds
Lives(s) == [l \in { <<k, s[k].exp>> : k \in DOMAIN s } |-> TRUE]

\* history: weight w more, or less, admitted under these lifetimes
Admit(a, lives, w) ==
    [l \in DOMAIN a \cup lives |-> IF l \in lives THEN Count(a, l) + w ELSE a[l]]
Unadmit(a, lives, w) ==
    [l \in { x \in DOMAIN a : x \in lives => a[x] # w } |->
        IF l \in lives THEN a[l] - w ELSE a[l]]

\* rateLimitRequest up to pipe.Exec, which succeeds
Charge(r, q) ==
    /\ Free(r)
    /\ q.selected
    /\ redisIsHealthy
    /\ charges < MaxCharges
    /\ LET res == Derive(q, now)
           rl == Deref(res.RateLimit)
           cmds == ChargeCmds(res, rl)
       IN /\ charges' = charges + 1
          /\ faults' = faults
          /\ store' = ApplyAll(store, cmds, now)
          /\ req' = [req EXCEPT ![r] =
                        [IdleReq EXCEPT
                            !.pc = "charged", !.in = q, !.path = "metered",
                            !.rl = [res EXCEPT !.RedisKeys = ChargedRedisKeys(res, rl)],
                            !.seen = rl, !.issued = cmds, !.applied = Len(cmds),
                            !.live = Lifetimes(store', cmds),
                            !.vals = [Second |-> Returned(store', rl.Second > 0,
                                                          RateLimitSecondKey(res)),
                                      Hour |-> Returned(store', rl.Hour > 0,
                                                        RateLimitHourKey(res)),
                                      Month |-> Returned(store', rl.Month > 0,
                                                         RateLimitMonthKey(res))]]]
    /\ UNCHANGED <<background, clock, redisIsHealthy, tables, weightTables, fallback>>

\* rateLimitRequest when pipe.Exec returns an error after the store has applied
\* the first n commands: the middleware serves the request; rl keeps the result
\* the function had built, which the middleware never sees
ChargeFail(r, q, n) ==
    /\ Free(r)
    /\ q.selected
    /\ redisIsHealthy
    /\ charges < MaxCharges
    /\ faults < MaxFaults
    /\ LET res == Derive(q, now)
           rl == Deref(res.RateLimit)
           cmds == ChargeCmds(res, rl)
       IN /\ n \in 0..Len(cmds)
          /\ charges' = charges + 1
          /\ faults' = faults + 1
          /\ store' = ApplyAll(store, SubSeq(cmds, 1, n), now)
          /\ req' = [req EXCEPT ![r] =
                        [IdleReq EXCEPT !.pc = "serving", !.in = q, !.path = "failopen",
                                        !.rl = res, !.seen = rl, !.issued = cmds,
                                        !.applied = n]]
    /\ UNCHANGED <<background, clock, redisIsHealthy, tables, weightTables, fallback>>

\* the decision reaches a window the quota enforces now whose *redis.IntCmd the
\* charge left nil, because the quota did not enforce it then; an earlier window
\* that is exceeded returns before
NilCmd(then, rl, vals) ==
    LET secondReturns == rl.Second > 0 /\ vals.Second > rl.Second
        hourReturns == rl.Hour > 0 /\ vals.Hour > rl.Hour
    IN \/ rl.Second > 0 /\ ~(then.Second > 0)
       \/ ~secondReturns /\ rl.Hour > 0 /\ ~(then.Hour > 0)
       \/ ~secondReturns /\ ~hourReturns /\ rl.Month > 0 /\ ~(then.Month > 0)

\* rateLimitRequest after pipe.Exec, then the middleware's headers and its
\* verdict. The quota is read again through res.RateLimit, with no lock held:
\* used is what is read. Val() of a nil command panics: net/http recovers, the
\* connection is closed without a response and postRateLimit is not reached
Respond(r) ==
    /\ NoneDone
    /\ req[r].pc = "charged"
    /\ LET rl == Deref(req[r].rl.RateLimit)
           res == Decide(req[r].rl, rl, req[r].vals)
       IN /\ req' = [req EXCEPT ![r] =
                    IF NilCmd(req[r].seen, rl, req[r].vals)
                    THEN [@ EXCEPT !.pc = "done", !.path = "panicked", !.used = rl]
                    ELSE IF TooManyRequests(res)
                    THEN [@ EXCEPT !.pc = "rejected", !.rl = res, !.used = rl,
                                   !.headers = Put(RateLimitHeaders(res, rl),
                                                   HeaderRetryAfter, FormatInt(res.Reset)),
                                   !.sent = StatusTooManyRequests]
                    ELSE [@ EXCEPT !.pc = "serving", !.rl = res, !.used = rl,
                                   !.headers = RateLimitHeaders(res, rl)]]
          /\ admitted' = IF req'[r].pc = "serving"
                         THEN Admit(admitted, req[r].live \cap DOMAIN Lives(store),
                                    req[r].rl.Weight)
                         ELSE admitted
    /\ UNCHANGED <<latches, database, scanner, tally, deleted, dbRuns, clock, redis, redisIsHealthy,
                   tables, weightTables, fallback>>

\* next.ServeHTTP: the upstream handler runs and returns
Handle(r, script) ==
    /\ NoneDone
    /\ req[r].pc = "serving"
    /\ LET d == RunHandler([status |-> 0, sent |-> 0], script)
       IN req' = [req EXCEPT ![r] =
                    [@ EXCEPT !.pc = IF req[r].path = "metered" THEN "served" ELSE "done",
                              !.status = IF req[r].path = "metered" THEN d.status ELSE 0,
                              !.sent = Finish(d.sent),
                              !.handlerCalls = @ + 1]]
    /\ UNCHANGED <<background, clock, redis, redisIsHealthy, tables, weightTables, fallback>>

\* the status postRateLimit is called with
ObservedStatus(r) ==
    IF req[r].pc = "rejected" THEN StatusTooManyRequests ELSE req[r].status

\* postRateLimit, its pipeline succeeding
PostRateLimit(r) ==
    /\ NoneDone
    /\ req[r].pc \in {"rejected", "served"}
    /\ LET cmds == PostRateLimitCmds(req[r].rl, ObservedStatus(r))
       IN /\ store' = ApplyAll(store, cmds, now)
          /\ req' = [req EXCEPT ![r] =
                        [@ EXCEPT !.pc = "done", !.refund = cmds,
                                  !.reconciled = IF Len(cmds) = 0 THEN "skipped" ELSE "ok"]]
          /\ tally' = IF ObservedStatus(r) = StatusOK
                      THEN Put(tally, req[r].rl.RedisStatsKey,
                               Count(tally, req[r].rl.RedisStatsKey) + 1)
                      ELSE tally
          /\ admitted' = IF req[r].pc = "served" /\ ObservedStatus(r) # StatusOK
                         THEN Unadmit(admitted, req[r].live, req[r].rl.Weight)
                         ELSE admitted
    /\ UNCHANGED <<latches, database, scanner, deleted, dbRuns, clock, charges, faults,
                   redisIsHealthy, tables, weightTables, fallback>>

\* postRateLimit, its pipeline failing after the store has applied the first n
\* commands: the error is logged
PostRateLimitFail(r, n) ==
    /\ NoneDone
    /\ req[r].pc \in {"rejected", "served"}
    /\ faults < MaxFaults
    /\ LET cmds == PostRateLimitCmds(req[r].rl, ObservedStatus(r))
       IN /\ Len(cmds) > 0
          /\ n \in 0..(Len(cmds) - 1)
          /\ faults' = faults + 1
          /\ store' = ApplyAll(store, SubSeq(cmds, 1, n), now)
          /\ req' = [req EXCEPT ![r] =
                        [@ EXCEPT !.pc = "done", !.refund = SubSeq(cmds, 1, n),
                                  !.reconciled = "failed"]]
          /\ admitted' = IF req[r].pc = "served"
                         THEN Unadmit(admitted, req[r].live, req[r].rl.Weight)
                         ELSE admitted
    /\ UNCHANGED <<latches, database, scanner, tally, deleted, dbRuns, clock, charges, redisIsHealthy,
                   tables, weightTables, fallback>>

\* the request is over: the later requests in flight move up one slot, so that
\* the requests in flight fill the first slots in the order they arrived in
Retire(r) ==
    /\ req[r].pc = "done"
    /\ req' = [i \in Reqs |->
                  IF i < r THEN req[i]
                  ELSE IF i < NumReqs THEN req[i + 1]
                  ELSE IdleReq]
    /\ UNCHANGED <<background, clock, redis, redisIsHealthy, tables, weightTables, fallback>>

----------------------------------------------------------------------------
(* The background workers and the clock *)

Workers == {"weights", "limits", "health"}

\* a pass counted, up to 2
CountPass(n) == IF n < 2 THEN n + 1 ELSE n

\* a goroutine that calls Done at the end of every successful pass
FireLatchEveryPass(w) ==
    /\ initializedWg' = initializedWg - 1
    /\ firstRun' = [firstRun EXCEPT ![w] = FALSE]
    /\ passes' = [passes EXCEPT ![w] = CountPass(@)]

\* the end of a successful pass in Init's goroutine of worker w:
\* if firstRun { initializedWg.Done(); firstRun = false }
FireLatch(w) ==
    /\ initializedWg' = IF firstRun[w] THEN initializedWg - 1 ELSE initializedWg
    /\ firstRun' = [firstRun EXCEPT ![w] = FALSE]
    /\ passes' = [passes EXCEPT ![w] = CountPass(@)]

\* the bucket column of a row: colons replaced, the empty name is the default
BucketOf(row) ==
    IF Join(row.bucket, "_") = "" THEN defaultBucket ELSE Join(row.bucket, "_")

\* updateWeights with the rows the query returned: weights is made anew, buckets
\* is written into
UpdateWeights(rows) ==
    /\ NoneDone
    /\ weights' = [e \in DOMAIN rows |-> rows[e].weight]
    /\ buckets' = [e \in DOMAIN buckets \cup DOMAIN rows |->
                      IF e \in DOMAIN rows THEN BucketOf(rows[e]) ELSE buckets[e]]
    /\ FireLatch("weights")
    /\ UNCHANGED <<database, scanner, tally, deleted, admitted, dbRuns, clock, redis, redisIsHealthy, tables, fallback, req>>

\* updateWeights when the query fails: nothing is written and the goroutine
\* sleeps and tries again, its firstRun as it was
UpdateWeightsFail ==
    /\ NoneDone
    /\ faults < MaxFaults
    /\ faults' = faults + 1
    /\ UNCHANGED <<background, clock, store, charges, redisIsHealthy, tables, weightTables,
                   fallback, req>>

\* a query that selects only "WHERE changed_at > $1"
SelectedIfChanged(table, last) ==
    { k \in DOMAIN table : table[k].changed_at > last }

\* the rows "WHERE changed_at > $1 OR valid_until < NOW()" selects
Selected(table, last) ==
    { k \in DOMAIN table : table[k].changed_at > last \/ table[k].valid_until < now }

\* the loops' running maximum of changed_at over the selected rows
Newest(table, rows, last) ==
    LET instants == {last} \cup { table[k].changed_at : k \in rows }
    IN CHOOSE t \in instants : \A u \in instants : u <= t

\* the product names of the model in the order "order by name" gives them
ProductNames == <<"free", "nokey">>

\* DBGetCurrentApiProducts at instant t: of the rows whose valid_from has come,
\* the newest of every name, ordered by name
CurrentRows(name, t) == { p \in db.api_products : p.name = name /\ p.valid_from <= t }
DBGetCurrentApiProducts(t) ==
    LET names == SelectSeq(ProductNames, LAMBDA n : CurrentRows(n, t) # {})
    IN [i \in 1..Len(names) |->
           CHOOSE p \in CurrentRows(names[i], t) :
               \A o \in CurrentRows(names[i], t) : o.valid_from <= p.valid_from]

\* the products loop: NoKeyRateLimit and FreeRatelimit are one object, so a row
\* named "nokey" and a row named "free" both write its three fields
RECURSIVE InstallProducts(_, _)
InstallProducts(rl, products) ==
    IF products = <<>> THEN rl
    ELSE LET p == Head(products)
             q == [Second |-> p.second, Hour |-> p.hour, Month |-> p.month]
             afterNoKey == IF p.name = "nokey" THEN q ELSE rl
             afterFree == IF p.name = "free" THEN q ELSE afterNoKey
         IN InstallProducts(afterFree, Tail(products))

\* updateRateLimits when every query succeeds: the rows that changed or ran out
\* are read, then under rateLimitsMu the products are installed, bindings that
\* ran out are deleted and the others installed, quotas interned by their
\* "%d/%d/%d" string
UpdateRateLimits ==
    LET keyRows == Selected(db.api_keys, lastRateLimitUpdateKeys)
        goneKeys == { k \in keyRows : db.api_keys[k].valid_until < now }
        rlRows == Selected(db.api_ratelimits, lastRateLimitUpdateRateLimits)
        goneRls == { u \in rlRows : db.api_ratelimits[u].valid_until < now }
        quotaOf(u) == [Second |-> db.api_ratelimits[u].second,
                       Hour |-> db.api_ratelimits[u].hour,
                       Month |-> db.api_ratelimits[u].month]
        newStrs == { RlStr(quotaOf(u)) : u \in rlRows \ goneRls }
    IN
    /\ NoneDone
    /\ NoKeyRateLimit' = InstallProducts(NoKeyRateLimit, DBGetCurrentApiProducts(now))
    /\ userIdByApiKey' =
           [k \in (DOMAIN userIdByApiKey \ goneKeys) \cup (keyRows \ goneKeys) |->
               IF k \in keyRows THEN db.api_keys[k].user_id ELSE userIdByApiKey[k]]
    /\ rateLimits' =
           [str \in DOMAIN rateLimits \cup newStrs |->
               IF str \in DOMAIN rateLimits THEN rateLimits[str]
               ELSE quotaOf(CHOOSE u \in rlRows \ goneRls : RlStr(quotaOf(u)) = str)]
    /\ rateLimitsByUserId' =
           [u \in (DOMAIN rateLimitsByUserId \ goneRls) \cup (rlRows \ goneRls) |->
               IF u \in rlRows THEN RlStr(quotaOf(u)) ELSE rateLimitsByUserId[u]]
    /\ lastRateLimitUpdateKeys' = Newest(db.api_keys, keyRows, lastRateLimitUpdateKeys)
    /\ lastRateLimitUpdateRateLimits' =
           Newest(db.api_ratelimits, rlRows, lastRateLimitUpdateRateLimits)
    /\ refreshedAt' = now
    /\ FireLatch("limits")
    /\ UNCHANGED <<db, scanner, tally, deleted, admitted, dbRuns, clock, redis, redisIsHealthy, weightTables, fallback, req>>

\* a goroutine of Init without the "continue" after a failed pass: the failure
\* is logged and the latch is fired all the same
UpdateRateLimitsFailThrough ==
    /\ NoneDone
    /\ faults < MaxFaults
    /\ faults' = faults + 1
    /\ FireLatch("limits")
    /\ UNCHANGED <<database, scanner, tally, deleted, admitted, dbRuns, clock, store, charges, redisIsHealthy,
                   tables, weightTables, fallback, req>>

\* updateRateLimits when the transaction or a query fails: every failure comes
\* before rateLimitsMu is taken, so nothing is written
UpdateRateLimitsFail ==
    /\ NoneDone
    /\ faults < MaxFaults
    /\ faults' = faults + 1
    /\ UNCHANGED <<background, clock, store, charges, redisIsHealthy, tables, weightTables,
                   fallback, req>>

\* updateRedisStatus: the ping answers or it does not
UpdateRedisStatus(pong) ==
    /\ NoneDone
    /\ redisIsHealthy' = pong
    /\ FireLatch("health")
    /\ UNCHANGED <<database, scanner, tally, deleted, admitted, dbRuns, clock, redis, tables, weightTables, fallback, req>>

\* the reaper of NewFallbackRateLimiter: clients unseen for too long are dropped
Reap ==
    /\ NoneDone
    /\ \E k \in DOMAIN clients :
            now - clients[k].lastSeen > ReaperIdleMinutes * 60 * MsPerSecond
    /\ clients' = [k \in {x \in DOMAIN clients :
                            now - clients[x].lastSeen
                                <= ReaperIdleMinutes * 60 * MsPerSecond} |-> clients[k]]
    /\ UNCHANGED <<background, clock, redis, redisIsHealthy, tables, weightTables, burst, req>>

\* updateStats between two passes
IdleScanner == [pc |-> "idle", start |-> 0, keys |-> {}, vals |-> EmptyMap]

\* the keys SCAN returns for the pattern "ratelimit:stats:*:*:*"
ScanStats(s) ==
    { k \in DOMAIN s : Len(k) >= 5 /\ k[1] = "ratelimit" /\ k[2] = "stats" }

\* time.Parse("2006-01-02-15", ks[2]) truncated to statsTruncateDuration: the
\* hour the key names
ParseHour(str) == CHOOSE h \in 0..(HourOf(now) + 1) : HourStr(h * MsPerHour) = str

\* the (ts, apikey, call) a key's entry is written under
EntryOf(k) == <<ParseHour(k[3]), k[4], k[5]>>

\* a batch loop that collects every key of the batch for the DEL
KeysToDeleteAll(keys, start) == keys

\* the batch loop's keysToDelete: the keys of an hour before the pass's hour
KeysToDelete(keys, start) == { k \in keys : ParseHour(k[3]) < HourOf(start) }

delSize == 500

\* MGET returns an error when it is given no key, which the loop
\* "for j := 0; j <= len(keys); j += mgetSize" does when len(keys) is a
\* multiple of mgetSize; a key that is gone answers nil, which is no string;
\* a key that does not split into five parts is an error before that
PassFails(keys, s) ==
    \/ \E k \in keys : Len(k) # 5
    \/ Cardinality(keys) % mgetSize = 0
    \/ \E k \in keys : k \notin DOMAIN s

\* updateStats, the SCAN: a pass that finds no key is over at once
StatsScan ==
    /\ NoneDone
    /\ scanner.pc = "idle"
    /\ ScanStats(store) # {}
    /\ scanner' = [pc |-> "scanned", start |-> now, keys |-> ScanStats(store),
                   vals |-> EmptyMap]
    /\ UNCHANGED <<latches, database, tally, deleted, admitted, dbRuns, clock, redis, redisIsHealthy, tables,
                   weightTables, fallback, req>>

\* updateStats, the MGETs and updateStatsEntries: every entry replaces the
\* count of its row ("ON CONFLICT ... DO UPDATE SET count = EXCLUDED.count");
\* an error ends the pass
StatsUpsert ==
    /\ NoneDone
    /\ scanner.pc = "scanned"
    /\ IF PassFails(scanner.keys, store)
       THEN /\ scanner' = IdleScanner
            /\ db' = db
       ELSE /\ scanner' = [scanner EXCEPT !.pc = "written",
                                          !.vals = [k \in scanner.keys |-> store[k].val]]
            /\ db' = [db EXCEPT !.api_statistics =
                         [e \in DOMAIN @ \cup { EntryOf(k) : k \in scanner.keys } |->
                             IF \E k \in scanner.keys : EntryOf(k) = e
                             THEN store[CHOOSE k \in scanner.keys : EntryOf(k) = e].val
                             ELSE @[e]]]
    /\ UNCHANGED <<latches, lastRateLimitUpdateKeys, lastRateLimitUpdateRateLimits,
                   refreshedAt, tally, deleted, admitted, dbRuns, clock, redis, redisIsHealthy, tables,
                   weightTables, fallback, req>>

\* updateStatsEntries returns an error: the transaction is rolled back and the
\* pass is over
StatsUpsertFail ==
    /\ NoneDone
    /\ scanner.pc = "scanned"
    /\ faults < MaxFaults
    /\ faults' = faults + 1
    /\ scanner' = IdleScanner
    /\ UNCHANGED <<latches, database, tally, deleted, admitted, dbRuns, clock, store, charges, redisIsHealthy,
                   tables, weightTables, fallback, req>>

\* updateStats, the DEL of the keys of closed hours, which ends the pass
StatsDel ==
    /\ NoneDone
    /\ scanner.pc = "written"
    /\ LET gone == KeysToDelete(scanner.keys, scanner.start) \cap DOMAIN store
       IN /\ store' = [k \in DOMAIN store \ gone |-> store[k]]
          /\ deleted' = [k \in DOMAIN deleted \cup gone |->
                            IF k \in gone THEN Count(deleted, k) + 1 ELSE deleted[k]]
    /\ scanner' = IdleScanner
    /\ UNCHANGED <<latches, database, tally, admitted, dbRuns, clock, charges, faults, redisIsHealthy,
                   tables, weightTables, fallback, req>>

\* the DEL returns an error: it is logged, the keys stay and the pass is over
StatsDelFail ==
    /\ NoneDone
    /\ scanner.pc = "written"
    /\ KeysToDelete(scanner.keys, scanner.start) # {}
    /\ faults < MaxFaults
    /\ faults' = faults + 1
    /\ scanner' = IdleScanner
    /\ UNCHANGED <<latches, database, tally, deleted, admitted, dbRuns, clock, store, charges, redisIsHealthy,
                   tables, weightTables, fallback, req>>

\* time passes: keys whose expiry has come are gone from the store
Tick ==
    /\ NoneDone
    /\ ticks < MaxTicks
    /\ now' = now + TickStep(ticks)
    /\ ticks' = ticks + 1
    /\ store' = Expire(store, now')
    /\ burst' = EmptyMap
    /\ admitted' = [l \in DOMAIN admitted \cap DOMAIN Lives(store') |-> admitted[l]]
    /\ UNCHANGED <<latches, database, scanner, tally, deleted, dbRuns, charges, faults, redisIsHealthy,
                   tables, weightTables, clients, req>>

----------------------------------------------------------------------------
(* The requests, quotas and weight rows the model draws from *)

Quota(s, h, m) == [Second |-> s, Hour |-> h, Month |-> m]

Request(query, header, ip, route, selected) ==
    [query |-> query, header |-> header, ip |-> ip, route |-> route,
     selected |-> selected]

Ip1 == <<"1.2.3.4">>
\* 2001:db8::1
Ip2 == <<"2001", "db8", "", "1">>
Key1 == "key1"
UserId1 == 1

RouteA == <<"/api/v1/a">>
RouteHeavy == <<"/api/v1/heavy">>

\* what the api_weights query can return
NoRows == EmptyMap
HeavyRows == (RouteHeavy :> [weight |-> 3, bucket |-> <<"heavy">>])

\* the quotas the product rows can give a request without a key
NoKeyQuotas == { Quota(0, 2, 0), Quota(0, 5, 0) }

\* the quota api_ratelimits gives the user
UserQuota == Quota(10, 100, 1000)

AnonA1 == Request("", "", Ip1, RouteA, TRUE)
AnonA2 == Request("", "", Ip2, RouteA, TRUE)
AnonHeavy == Request("", "", Ip1, RouteHeavy, TRUE)
UserA == Request(Key1, "", Ip1, RouteA, TRUE)

\* the metered requests of the pipeline's specification
Requests == { AnonA1, AnonHeavy, UserA }

\* the handlers: WriteHeader(200), WriteHeader(500), and one that writes nothing
Scripts == { <<StatusOK>>, <<500>>, <<>> }

\* no pipeline of the model is longer
MaxCmds == 7

----------------------------------------------------------------------------
(* The state once the three workers have passed once *)

\* the tables after the first refreshes, at one of the instants in starts, with
\* one of the quotas in nokeys for requests without a key and the weights of rows
\* to_timestamp('3000-01-01', 'YYYY-MM-DD'): an instant later than every instant
\* the clock reaches
ValidForever == 2000000000

\* time.Time{}, the value lastRateLimitUpdateKeys and lastRateLimitUpdateRateLimits
\* are declared with: an instant earlier than every instant of the clock
ZeroTime == 0 - 1

\* a row of api_keys, of api_ratelimits and of api_products
KeyRow(user, until, changed) ==
    [user_id |-> user, valid_until |-> until, changed_at |-> changed]
RateLimitRow(q, until, changed) ==
    [second |-> q.Second, hour |-> q.Hour, month |-> q.Month,
     valid_until |-> until, changed_at |-> changed]
ProductRow(name, q, from) ==
    [name |-> name, second |-> q.Second, hour |-> q.Hour, month |-> q.Month,
     valid_from |-> from]

\* the relational store: api_keys by api_key, api_ratelimits by user_id, the
\* rows of api_products, api_statistics by (hour, user, api key, bucket)
Db(keys, limits, products) ==
    [api_keys |-> keys, api_ratelimits |-> limits, api_products |-> products,
     api_statistics |-> EmptyMap]

\* the state once Init has returned: every worker has passed, the tables hold
\* what the rows of the relational store say
Serving(products) ==
    /\ initializedWg = 0
    /\ firstRun = [w \in Workers |-> FALSE]
    /\ passes = [w \in Workers |-> 2]
    /\ db = Db((Key1 :> KeyRow(UserId1, ValidForever, 0)),
               (UserId1 :> RateLimitRow(UserQuota, ValidForever, 0)),
               products)
    /\ lastRateLimitUpdateKeys = 0
    /\ lastRateLimitUpdateRateLimits = 0
    /\ refreshedAt = 0
    /\ scanner = IdleScanner
    /\ tally = EmptyMap
    /\ deleted = EmptyMap
    /\ admitted = EmptyMap
    /\ dbRuns = 0

InitWith(starts, nokeys, rows) ==
    /\ now \in starts
    /\ ticks = 0
    /\ store = EmptyMap
    /\ charges = 0
    /\ faults = 0
    /\ redisIsHealthy = TRUE
    /\ NoKeyRateLimit \in nokeys
    /\ rateLimits = (RlStr(UserQuota) :> UserQuota)
    /\ rateLimitsByUserId = (UserId1 :> RlStr(UserQuota))
    /\ userIdByApiKey = (Key1 :> UserId1)
    /\ weights = [e \in DOMAIN rows |-> rows[e].weight]
    /\ buckets = [e \in DOMAIN rows |-> BucketOf(rows[e])]
    /\ clients = EmptyMap
    /\ burst = EmptyMap
    /\ req = [r \in Reqs |-> IdleReq]
    /\ Serving({ProductRow("nokey", NoKeyRateLimit, 0)})

\* the slot of a pipeline that takes one request at a time
OneAtATime == {1}

Init == InitWith({0}, NoKeyQuotas, HeavyRows)

\* the request pipeline against a healthy store, one request at a time
Next ==
    \/ \E r \in OneAtATime, q \in Requests : Charge(r, q)
    \/ \E r \in OneAtATime, q \in Requests, n \in 0..MaxCmds : ChargeFail(r, q, n)
    \/ \E r \in OneAtATime : Respond(r)
    \/ \E r \in OneAtATime, script \in Scripts : Handle(r, script)
    \/ \E r \in OneAtATime : PostRateLimit(r)
    \/ \E r \in OneAtATime, n \in 0..MaxCmds : PostRateLimitFail(r, n)
    \/ \E r \in OneAtATime : Retire(r)
    \/ Tick

Spec == Init /\ [][Next]_vars

----------------------------------------------------------------------------
(* Concurrent requests of one caller, a weights refresher and a clock that takes
   the first request over the end of the hour and of the month *)

\* api_weights gives the route a weight of 3 in the default bucket
TripleRows == (RouteA :> [weight |-> 3, bucket |-> <<>>])

ConcurrentRows == { NoRows, TripleRows }
ConcurrentRequests == { AnonA1 }
ConcurrentQuota == Quota(2, 4, 4)
ConcurrentScripts == { <<StatusOK>>, <<500>> }

\* one second before the month, and with it the hour, is over
LastSecondOfMonth == HoursPerMonth * MsPerHour - MsPerSecond

InitConcurrent == InitWith({LastSecondOfMonth}, {ConcurrentQuota}, TripleRows)

NextConcurrent ==
    \/ \E r \in Reqs, q \in ConcurrentRequests : Charge(r, q)
    \/ \E r \in Reqs : Respond(r)
    \/ \E r \in Reqs, script \in ConcurrentScripts : Handle(r, script)
    \/ \E r \in Reqs : PostRateLimit(r)
    \/ \E r \in Reqs : Retire(r)
    \/ \E rows \in ConcurrentRows : UpdateWeights(rows)
    \/ Tick

SpecConcurrent == InitConcurrent /\ [][NextConcurrent]_vars

----------------------------------------------------------------------------
(* Concurrent requests of two callers without a key *)

AnonymousRequests == { AnonA1, AnonA2 }

InitAnonymous == InitWith({0}, {ConcurrentQuota}, NoRows)

NextAnonymous ==
    \/ \E r \in Reqs, q \in AnonymousRequests : Charge(r, q)
    \/ \E r \in Reqs : Respond(r)
    \/ \E r \in Reqs, script \in ConcurrentScripts : Handle(r, script)
    \/ \E r \in Reqs : PostRateLimit(r)
    \/ \E r \in Reqs : Retire(r)

SpecAnonymous == InitAnonymous /\ [][NextAnonymous]_vars

----------------------------------------------------------------------------
(* The pipeline with the health prober: requests arrive while the store is
   flagged healthy and while it is not *)

\* a request the selector does not mark as metered
Unselected == Request("", "", Ip1, <<"/other">>, FALSE)

FallbackRequests == { AnonA1, AnonA2 }
FallbackScripts == { <<StatusOK>> }

InitFallback == InitWith({0}, {Quota(0, 5, 0)}, NoRows)

NextFallback ==
    \/ \E pong \in BOOLEAN : UpdateRedisStatus(pong)
    \/ \E r \in OneAtATime : Passthrough(r, Unselected)
    \/ \E r \in OneAtATime, q \in FallbackRequests : FallbackHandle(r, q)
    \/ \E r \in OneAtATime : Charge(r, AnonA1)
    \/ \E r \in OneAtATime : Respond(r)
    \/ \E r \in OneAtATime, script \in FallbackScripts : Handle(r, script)
    \/ \E r \in OneAtATime : PostRateLimit(r)
    \/ \E r \in OneAtATime : Retire(r)
    \/ Tick

SpecFallback == InitFallback /\ [][NextFallback]_vars

----------------------------------------------------------------------------
(* The start of the process: Init has added three to initializedWg and started
   the workers, no worker has passed yet, and requests are already arriving at
   the listener *)

\* the rows of the relational store at the start
BootProducts == { ProductRow("free", Quota(0, 3, 0), 0), ProductRow("nokey", Quota(0, 5, 0), 0) }
BootDb == Db((Key1 :> KeyRow(UserId1, ValidForever, 0)),
             (UserId1 :> RateLimitRow(UserQuota, ValidForever, 0)),
             BootProducts)

BootRequests == { UserA }
BootScripts == { <<StatusOK>> }

\* the package's variables as they are declared, initializedWg after Add(3)
InitBoot ==
    /\ now = 0
    /\ ticks = 0
    /\ store = EmptyMap
    /\ charges = 0
    /\ faults = 0
    /\ redisIsHealthy = FALSE
    /\ NoKeyRateLimit = Quota(DefaultRateLimitSecond, DefaultRateLimitHour,
                              DefaultRateLimitMonth)
    /\ rateLimits = EmptyMap
    /\ rateLimitsByUserId = EmptyMap
    /\ userIdByApiKey = EmptyMap
    /\ weights = EmptyMap
    /\ buckets = EmptyMap
    /\ clients = EmptyMap
    /\ burst = EmptyMap
    /\ req = [r \in Reqs |-> IdleReq]
    /\ initializedWg = 3
    /\ firstRun = [w \in Workers |-> TRUE]
    /\ passes = [w \in Workers |-> 0]
    /\ db = BootDb
    /\ lastRateLimitUpdateKeys = ZeroTime
    /\ lastRateLimitUpdateRateLimits = ZeroTime
    /\ refreshedAt = ZeroTime
    /\ scanner = IdleScanner
    /\ tally = EmptyMap
    /\ deleted = EmptyMap
    /\ admitted = EmptyMap
    /\ dbRuns = 0

NextBoot ==
    \/ UpdateWeights(HeavyRows)
    \/ UpdateWeightsFail
    \/ UpdateRateLimits
    \/ UpdateRateLimitsFail
    \/ \E pong \in BOOLEAN : UpdateRedisStatus(pong)
    \/ \E r \in OneAtATime : Passthrough(r, Unselected)
    \/ \E r \in OneAtATime, q \in BootRequests : FallbackHandle(r, q)
    \/ \E r \in OneAtATime, q \in BootRequests : Charge(r, q)
    \/ \E r \in OneAtATime : Respond(r)
    \/ \E r \in OneAtATime, script \in BootScripts : Handle(r, script)
    \/ \E r \in OneAtATime : PostRateLimit(r)
    \/ \E r \in OneAtATime : Retire(r)

SpecBoot == InitBoot /\ [][NextBoot]_vars

----------------------------------------------------------------------------
(* A limits refresher beside the requests of a caller with a key and of one
   without, bindings that run out and a product row that comes into force while
   the process runs *)

\* the clock's first stop: the valid_until of a binding that runs out and the
\* valid_from of a product row that comes into force
FirstStop == TickStep(0)

NoKeyTriple == Quota(0, 5, 0)
RevisedNoKeyTriple == Quota(2, 5, 5)
FreeTriples == { Quota(0, 5, 0), Quota(0, 3, 0) }

\* api_products: a nokey row, a free row with the same triple or another, and
\* perhaps a newer nokey row
LimitsProducts ==
    { { ProductRow("free", f, 0), ProductRow("nokey", NoKeyTriple, 0) } \cup revised :
        f \in FreeTriples,
        revised \in { {}, { ProductRow("nokey", RevisedNoKeyTriple, FirstStop) } } }

\* the key of user 1 and the user's quota, each valid for ever or until the
\* clock's first stop
LimitsDbs ==
    { Db((Key1 :> KeyRow(UserId1, keyUntil, 0)),
         (UserId1 :> RateLimitRow(UserQuota, quotaUntil, 0)),
         products) :
        keyUntil \in { ValidForever, FirstStop },
        quotaUntil \in { ValidForever, FirstStop },
        products \in LimitsProducts }

LimitsRequests == { AnonA1, UserA }
LimitsScripts == { <<StatusOK>> }

\* the weights and health workers have passed, the limits worker has not
InitLimits ==
    /\ now = 0
    /\ ticks = 0
    /\ store = EmptyMap
    /\ charges = 0
    /\ faults = 0
    /\ redisIsHealthy = TRUE
    /\ NoKeyRateLimit = Quota(DefaultRateLimitSecond, DefaultRateLimitHour,
                              DefaultRateLimitMonth)
    /\ rateLimits = EmptyMap
    /\ rateLimitsByUserId = EmptyMap
    /\ userIdByApiKey = EmptyMap
    /\ weights = EmptyMap
    /\ buckets = EmptyMap
    /\ clients = EmptyMap
    /\ burst = EmptyMap
    /\ req = [r \in Reqs |-> IdleReq]
    /\ initializedWg = 1
    /\ firstRun = [w \in Workers |-> w = "limits"]
    /\ passes = [w \in Workers |-> IF w = "limits" THEN 0 ELSE 2]
    /\ db \in LimitsDbs
    /\ lastRateLimitUpdateKeys = ZeroTime
    /\ lastRateLimitUpdateRateLimits = ZeroTime
    /\ refreshedAt = ZeroTime
    /\ scanner = IdleScanner
    /\ tally = EmptyMap
    /\ deleted = EmptyMap
    /\ admitted = EmptyMap
    /\ dbRuns = 0

NextLimits ==
    \/ UpdateRateLimits
    \/ \E r \in OneAtATime, q \in LimitsRequests : Charge(r, q)
    \/ \E r \in OneAtATime : Respond(r)
    \/ \E r \in OneAtATime, script \in LimitsScripts : Handle(r, script)
    \/ \E r \in OneAtATime : PostRateLimit(r)
    \/ \E r \in OneAtATime : Retire(r)
    \/ Tick

SpecLimits == InitLimits /\ [][NextLimits]_vars

----------------------------------------------------------------------------
(* The usage scanner beside the requests of a caller, from the last second of an
   hour on: the clock's first stop closes the hour *)

StatsRequests == { AnonA1 }
StatsScripts == { <<StatusOK>>, <<500>> }

\* one second before the first hour is over
LastSecondOfHour == MsPerHour - MsPerSecond

InitStats == InitWith({LastSecondOfHour}, {Quota(0, 5, 0)}, NoRows)

NextStats ==
    \/ \E r \in OneAtATime, q \in StatsRequests : Charge(r, q)
    \/ \E r \in OneAtATime : Respond(r)
    \/ \E r \in OneAtATime, script \in StatsScripts : Handle(r, script)
    \/ \E r \in OneAtATime : PostRateLimit(r)
    \/ \E r \in OneAtATime : Retire(r)
    \/ StatsScan
    \/ StatsUpsert
    \/ StatsUpsertFail
    \/ StatsDel
    \/ StatsDelFail
    \/ Tick

SpecStats == InitStats /\ [][NextStats]_vars

----------------------------------------------------------------------------
(* A weights refresher whose query returns now one set of rows, now another,
   beside the requests of a caller to a route the rows name and to one they
   do not *)

\* api_weights gives the heavy route a weight of 2 in the default bucket
LightRows == (RouteHeavy :> [weight |-> 2, bucket |-> <<>>])

\* what the query returns: no row, the heavy route in its own bucket, the heavy
\* route in the default bucket
WeightsRowSets == { NoRows, HeavyRows, LightRows }
WeightsRequests == { AnonA1, AnonHeavy }
WeightsScripts == { <<StatusOK>> }

InitWeights == InitWith({0}, {Quota(0, 5, 0)}, NoRows)

NextWeights ==
    \/ \E rows \in WeightsRowSets : UpdateWeights(rows)
    \/ \E r \in OneAtATime, q \in WeightsRequests : Charge(r, q)
    \/ \E r \in OneAtATime : Respond(r)
    \/ \E r \in OneAtATime, script \in WeightsScripts : Handle(r, script)
    \/ \E r \in OneAtATime : PostRateLimit(r)
    \/ \E r \in OneAtATime : Retire(r)

SpecWeights == InitWeights /\ [][NextWeights]_vars

----------------------------------------------------------------------------
(* What the claims speak of *)

Windows == {SecondTimeWindow, HourTimeWindow, MonthTimeWindow}

\* the limit of a window in a quota, the value the pipeline returned for it
LimitOf(q, w) ==
    CASE w = SecondTimeWindow -> q.Second
      [] w = HourTimeWindow -> q.Hour
      [] w = MonthTimeWindow -> q.Month

ValOf(v, w) ==
    CASE w = SecondTimeWindow -> v.Second
      [] w = HourTimeWindow -> v.Hour
      [] w = MonthTimeWindow -> v.Month

\* the windows a quota enforces
Enforced(q) == {w \in Windows : LimitOf(q, w) > 0}

\* whole seconds from an instant to the end of its hour, of its month
SecondsToHourEnd(t) == (MsPerHour - (t % MsPerHour)) \div MsPerSecond
SecondsToMonthEnd(t) ==
    (HoursPerMonth * MsPerHour - (t % (HoursPerMonth * MsPerHour))) \div MsPerSecond

\* the seconds until a window that began at instant t resets
ResetOf(t, w) ==
    CASE w = SecondTimeWindow -> 1
      [] w = HourTimeWindow -> SecondsToHourEnd(t)
      [] w = MonthTimeWindow -> SecondsToMonthEnd(t)

\* the request was charged and the middleware has given its verdict
Decided(r) ==
    /\ req[r].path = "metered"
    /\ req[r].pc \in {"rejected", "serving", "served", "done"}

\* the middleware answered 429 and never called the handler
Rejected(r) ==
    /\ Decided(r)
    /\ req[r].sent = StatusTooManyRequests
    /\ req[r].handlerCalls = 0

\* the middleware passed the request on to the handler
Admitted(r) == Decided(r) /\ ~Rejected(r)

\* the enforced windows whose post-increment value exceeds the limit
Exceeded(r) ==
    {w \in Enforced(req[r].seen) : ValOf(req[r].vals, w) > LimitOf(req[r].seen, w)}

\* the first of them in the order second, hour, month
FirstExceeded(r) ==
    IF SecondTimeWindow \in Exceeded(r) THEN SecondTimeWindow
    ELSE IF HourTimeWindow \in Exceeded(r) THEN HourTimeWindow
    ELSE MonthTimeWindow

\* what is left of a window after the charge
RemainingOf(r, w) == LimitOf(req[r].seen, w) - ValOf(req[r].vals, w)

\* the only window of the quota is the hour, with this limit
HourOnly(q, limit) == q = [Second |-> 0, Hour |-> limit, Month |-> 0]

\* the positions of the commands of a request that add to a window's counter
IncrBys(r, w) ==
    {i \in 1..Len(req[r].issued) :
        req[r].issued[i].op = "incrby" /\ req[r].issued[i].key[2] = w}

\* the positions of the commands of a request that add to a usage counter
StatsIncrs(r) ==
    {i \in 1..Len(req[r].issued) :
        req[r].issued[i].op = "incr" /\ req[r].issued[i].key[2] = "stats"}

\* the positions of all the commands of a request that add to anything
AllIncrs(r) ==
    {i \in 1..Len(req[r].issued) : req[r].issued[i].op \in {"incrby", "incr"}}

----------------------------------------------------------------------------
(* C1 *)

\* C1: a metered request is rejected with 429 exactly when the post-increment
\* value of some enforced window exceeds its limit; the window reported is then
\* the first exceeded one in the order second, hour, month, with Reset 1 for the
\* second window; in every other case the upstream handler is invoked.
C1_RejectedIffExceeded ==
    \A r \in Reqs :
        Decided(r) =>
            /\ Rejected(r) <=> Exceeded(r) # {}
            /\ Exceeded(r) # {} =>
                  /\ req[r].rl.Window = FirstExceeded(r)
                  /\ req[r].rl.Reset = ResetOf(req[r].rl.Time, FirstExceeded(r))
            /\ (Exceeded(r) = {} /\ req[r].pc \in {"served", "done"}) =>
                  req[r].handlerCalls = 1

----------------------------------------------------------------------------
(* C2 *)

\* the request is the k-th of a run of weight-1 requests of one caller that began
\* on an empty hour counter, and every request before it was admitted and
\* completed with 200: charges counts the requests that reached the store, and
\* the hour counter returns that count only when every one of them added 1 to
\* this counter and none was refunded
KthOfCleanRun(r, k) ==
    /\ Decided(r)
    /\ req[r].in = AnonA1
    /\ req[r].rl.Weight = 1
    /\ faults = 0
    /\ charges = k
    /\ req[r].vals.Hour = k

\* C2: with quota (0, L, 0) and weight-1 requests of one caller in one hour, each
\* completing with 200, the k-th request for k in 1..L is admitted and reports
\* X-RateLimit-Remaining = L - k, and the (L+1)-th is rejected with 429 and a
\* Retry-After of the seconds until the next top of the hour.
C2_HourCapCountsToLimit ==
    \A r \in Reqs : \A k \in 1..MaxCharges :
        (KthOfCleanRun(r, k) /\ HourOnly(req[r].seen, req[r].seen.Hour)) =>
            /\ k <= req[r].seen.Hour =>
                  /\ Admitted(r)
                  /\ req[r].headers[HeaderRateLimitRemaining]
                        = FormatInt(req[r].seen.Hour - k)
            /\ k = req[r].seen.Hour + 1 =>
                  /\ Rejected(r)
                  /\ req[r].headers[HeaderRetryAfter]
                        = FormatInt(SecondsToHourEnd(req[r].rl.Time))

----------------------------------------------------------------------------
(* C3 *)

\* C3: when a request is admitted under a quota that enforces two or more
\* windows, the reported Limit, Remaining, Reset and Window are those of the
\* enforced window with the smallest remaining allowance after the charge; under
\* (10, 100, 1000) a weight-1 request on empty counters reports Limit 10,
\* Remaining 9.
C3_ReportsTightestWindow ==
    \A r \in Reqs :
        (Admitted(r) /\ Cardinality(Enforced(req[r].seen)) >= 2) =>
            \E w \in Enforced(req[r].seen) :
                /\ \A u \in Enforced(req[r].seen) : RemainingOf(r, w) <= RemainingOf(r, u)
                /\ req[r].rl.Window = w
                /\ req[r].rl.Limit = LimitOf(req[r].seen, w)
                /\ req[r].rl.Remaining = RemainingOf(r, w)
                /\ req[r].rl.Reset = ResetOf(req[r].rl.Time, w)

----------------------------------------------------------------------------
(* C4 *)

\* the window counters a request has added to
CounterKeys(r) ==
    {req[r].issued[i].key : i \in UNION {IncrBys(r, w) : w \in Windows}}

\* the request came without a valid key and has been charged
AnonymousCharged(r) == req[r].path = "metered" /\ ~req[r].rl.IsValidKey

\* C4: two requests without a valid API key from different IP addresses are
\* charged against different second, hour and month counters, so a request of
\* one anonymous caller is never rejected on account of what another anonymous
\* caller has used: when the two are the only requests so far, one of them is
\* rejected only if its own weight exceeds a limit.
C4_AnonymousCallersApart ==
    \A r \in Reqs : \A o \in Reqs \ {r} :
        (/\ AnonymousCharged(r)
         /\ AnonymousCharged(o)
         /\ req[r].rl.IP # req[o].rl.IP) =>
            /\ CounterKeys(r) \cap CounterKeys(o) = {}
            /\ (charges = 2 /\ Rejected(r)) =>
                  \E w \in Enforced(req[r].seen) :
                      req[r].rl.Weight > LimitOf(req[r].seen, w)

----------------------------------------------------------------------------
(* C5 *)

RECURSIVE AddedTo(_, _)
\* what the commands of a pipeline add to a key
AddedTo(cmds, key) ==
    IF Len(cmds) = 0 THEN 0
    ELSE (IF Head(cmds).key = key /\ Head(cmds).op \in {"incrby", "incr"}
          THEN Head(cmds).arg ELSE 0)
         + AddedTo(Tail(cmds), key)

\* the keys a request has charged
ChargedKeys(cmds) == {cmds[i].key : i \in 1..Len(cmds)}

\* the window of a counter the request charged is over and its key has expired
Lapsed(r, key) ==
    \E i \in 1..Len(req[r].rl.RedisKeys) :
        /\ req[r].rl.RedisKeys[i].Key = key
        /\ req[r].rl.RedisKeys[i].ExpireAt <= now

\* the step is the charge of request r
ChargeStep(r) == req[r].pc = "idle" /\ req'[r].path = "metered"

\* the step is the reconciliation of request r, whose observed status is not
\* 200, and the pipeline of the reconciliation succeeds
ReconcileStep(r) ==
    /\ req[r].pc \in {"rejected", "served"}
    /\ ObservedStatus(r) # StatusOK
    /\ req'[r].pc = "done"
    /\ req'[r].reconciled = "ok"

\* C5: the charge of a metered request adds its weight to every counter it
\* charges and 1 to its stats key; when its observed status is not 200 (a 429
\* of the limiter included) the reconciliation takes from every hour and month
\* counter and from the stats key exactly what the charge added, so that the net
\* change is 0, and leaves the second counter and every other key alone. This
\* holds with other requests in flight and when the weights are refreshed or
\* the hour ends between the charge and the reconciliation; a counter whose
\* window is over and whose key has expired stays absent.
C5_RefundUndoesCharge ==
    [][\A r \in Reqs :
          /\ ChargeStep(r) =>
                \A key \in ChargedKeys(req'[r].issued) :
                    Val(store', key) = Val(store, key) + AddedTo(req'[r].issued, key)
          /\ ReconcileStep(r) =>
                /\ \A key \in ChargedKeys(req[r].issued) :
                      IF key[2] = SecondTimeWindow
                      THEN /\ (key \in DOMAIN store) = (key \in DOMAIN store')
                           /\ Val(store', key) = Val(store, key)
                      ELSE \/ /\ key \in DOMAIN store'
                              /\ Val(store', key)
                                    = Val(store, key) - AddedTo(req[r].issued, key)
                           \/ /\ key \notin DOMAIN store
                              /\ key \notin DOMAIN store'
                              /\ Lapsed(r, key)
                /\ \A key \in DOMAIN store \ ChargedKeys(req[r].issued) :
                      key \in DOMAIN store' /\ store'[key] = store[key]
      ]_vars

\* a request that answered 500 is reconciled after the weight of its route has
\* changed and its hour has ended, while another request charged to the same
\* hour counter is still in flight
C5_Witness ==
    \E r \in Reqs : \E o \in Reqs \ {r} :
        /\ req[r].path = "metered"
        /\ req[r].pc = "done"
        /\ req[r].status = 500
        /\ req[r].reconciled = "ok"
        /\ getWeight(req[r].rl.Route).Weight # req[r].rl.Weight
        /\ HourOf(now) # HourOf(req[r].rl.Time)
        /\ req[o].path = "metered"
        /\ req[o].pc \in {"charged", "serving", "served"}
        /\ req[o].rl.RedisKeys[1].Key = req[r].rl.RedisKeys[1].Key

----------------------------------------------------------------------------
(* C6 *)

\* C6: with an hour limit of 5 and an empty hour counter, a weight-3 request is
\* charged and admitted and its handler runs; when the handler returns 500 the
\* reconciliation leaves the hour counter at its pre-request value, so that the
\* next weight-3 request, which again finds the counter empty, is admitted too.
C6_RefundKeepsQuota ==
    \A r \in Reqs :
        (/\ Decided(r)
         /\ HourOnly(req[r].seen, 5)
         /\ req[r].rl.Weight = 3
         /\ req[r].vals.Hour = 3) =>
            /\ Admitted(r)
            /\ req[r].pc \in {"served", "done"} => req[r].handlerCalls = 1
            /\ (req[r].pc = "done" /\ req[r].status = 500 /\ req[r].reconciled = "ok") =>
                  Val(store, req[r].rl.RedisKeys[1].Key) = 0

----------------------------------------------------------------------------
(* C7 *)

\* C7: a request that reaches the charge step issues exactly one increment by
\* its weight for every window whose limit is positive, none for a window whose
\* limit is 0, and exactly one increment by 1 of the usage counter; on the
\* metered path all of them are applied before the verdict, alike for an
\* admitted and a rejected request, so the total charged is the weight times
\* the number of enforced windows.
C7_OneChargePerEnforcedWindow ==
    \A r \in Reqs :
        req[r].path \in {"metered", "failopen"} =>
            /\ \A w \in Windows :
                  /\ Cardinality(IncrBys(r, w)) = IF w \in Enforced(req[r].seen) THEN 1 ELSE 0
                  /\ \A i \in IncrBys(r, w) : req[r].issued[i].arg = req[r].rl.Weight
            /\ Cardinality(StatsIncrs(r)) = 1
            /\ \A i \in StatsIncrs(r) : req[r].issued[i].arg = 1
            /\ AllIncrs(r) = StatsIncrs(r) \cup UNION {IncrBys(r, w) : w \in Windows}
            /\ req[r].path = "metered" => req[r].applied = Len(req[r].issued)

\* a rejected request under a quota with an enforced and an unenforced window
C7_Witness ==
    \E r \in Reqs :
        /\ Rejected(r)
        /\ HourTimeWindow \in Enforced(req[r].seen)
        /\ SecondTimeWindow \notin Enforced(req[r].seen)
        /\ req[r].applied = Len(req[r].issued)

----------------------------------------------------------------------------
(* C8 *)

\* C8: every response of the metered path has Remaining <= Limit and
\* Reset >= 0, and a rejected response has Remaining 0.
C8_ReportedFiguresSane ==
    \A r \in Reqs :
        Decided(r) =>
            /\ req[r].rl.Remaining <= req[r].rl.Limit
            /\ req[r].rl.Reset >= 0
            /\ Rejected(r) => req[r].rl.Remaining = 0

----------------------------------------------------------------------------
(* C9 *)

\* the commands of the charge pipeline that the store executed and that add
AppliedIncrs(r) == {i \in AllIncrs(r) : i <= req[r].applied}

\* C9: when the charge pipeline fails, the request is admitted un-metered: the
\* handler is called exactly once, no 429 comes from the limiter, no refund is
\* issued, and the request leaves no net charge.
C9_FailOpenUnmetered ==
    \A r \in Reqs :
        (req[r].path = "failopen" /\ req[r].pc = "done") =>
            /\ req[r].handlerCalls = 1
            /\ req[r].sent # StatusTooManyRequests
            /\ req[r].refund = <<>>
            /\ AppliedIncrs(r) = {}

----------------------------------------------------------------------------
(* C10 *)

\* the requests of a caller key the fallback limiter has admitted since the
\* clock last moved
BurstOf(k) == IF k \in DOMAIN burst THEN burst[k] ELSE 0

\* the fallback limiter answered 429 and never called the handler
FallbackRejected(r) ==
    /\ req[r].path = "fallback"
    /\ req[r].sent = StatusTooManyRequests
    /\ req[r].handlerCalls = 0

\* the step is the arrival of a selected request in slot r
Arrives(r) == req[r].pc = "idle" /\ req'[r].pc # "idle" /\ req'[r].in.selected

\* C10: while the health flag is false a selected request is handled by the
\* fallback limiter alone and no command goes to the shared store, so no key of
\* the store is created or changed; of one caller key at most 20 requests are
\* admitted with no time elapsed, the next one gets 429 with
\* X-RateLimit-Limit 20 and X-RateLimit-Reset 1, and the bucket of every other
\* caller key is left as it was.
C10_FallbackAloneWhenUnhealthy ==
    /\ [](\A k \in DOMAIN burst : burst[k] <= 20)
    /\ [](\A r \in Reqs :
            FallbackRejected(r) =>
                /\ req[r].headers[HeaderRateLimitLimit] = "20"
                /\ req[r].headers[HeaderRateLimitReset] = "1")
    /\ [][\A r \in Reqs :
            /\ (~redisIsHealthy /\ Arrives(r)) =>
                  /\ req'[r].path = "fallback"
                  /\ req'[r].issued = <<>>
                  /\ store' = store
                  /\ BurstOf(getKey(req'[r].in)) = 20 =>
                        /\ req'[r].sent = StatusTooManyRequests
                        /\ req'[r].handlerCalls = 0
                  /\ \A k \in DOMAIN clients \ {getKey(req'[r].in)} :
                        k \in DOMAIN clients' /\ clients'[k] = clients[k]
            /\ (req[r].path = "fallback" /\ req'[r] # req[r]) => store' = store
         ]_vars

\* with the store flagged unhealthy and counters in it, the 21st request of a
\* caller key in a burst is rejected while another caller key has tokens left
C10_Witness ==
    \E r \in Reqs :
        /\ ~redisIsHealthy
        /\ store # EmptyMap
        /\ FallbackRejected(r)
        /\ BurstOf(getKey(req[r].in)) = 20
        /\ \E k \in DOMAIN clients \ {getKey(req[r].in)} : clients[k].tokens >= MsPerSecond

----------------------------------------------------------------------------
(* The start of the process *)

\* a request has been taken in: it is in progress or answered
Started == \E r \in Reqs : req[r].pc # "idle"

\* the workers that have not completed a successful pass
Pending == { w \in Workers : passes[w] = 0 }

\* C11: while one of the three workers (weights, limits, health) has not
\* completed a successful pass no request is taken in and nothing is charged;
\* the wait group's counter is at every moment the number of workers without a
\* successful pass, so a worker's first successful pass lowers it by one and no
\* later pass lowers it again; a pass that fails leaves the counter and the
\* worker's firstRun as they were, so traffic stays blocked while it keeps failing
C11_TrafficWaitsForFirstPasses ==
    /\ [](Pending # {} => ~Started /\ charges = 0 /\ clients = EmptyMap)
    /\ [](initializedWg = Cardinality(Pending))
    /\ [](\A w \in Workers : firstRun[w] <=> w \in Pending)
    /\ [][faults' # faults => UNCHANGED latches]_vars

\* a pass has failed, the weights worker has passed more than once, and a
\* request is being served
C11_Witness ==
    /\ faults > 0
    /\ passes["weights"] = 2
    /\ initializedWg = 0
    /\ Started

----------------------------------------------------------------------------
(* Bindings that run out *)

\* the key bindings and the user-quota bindings whose valid_until had passed
\* when the limits were last refreshed
LapsedKeys == { k \in DOMAIN db.api_keys : db.api_keys[k].valid_until < refreshedAt }
LapsedQuotas ==
    { u \in DOMAIN db.api_ratelimits : db.api_ratelimits[u].valid_until < refreshedAt }

\* the lookup's answer for a key it does not know
UnknownKey == [UserId |-> 0 - 1, IsValidKey |-> FALSE, RateLimit |-> NoKeyPtr]

\* request q arrives in slot r and is charged in this step
ChargedNow(r, q) ==
    /\ req[r].pc = "idle"
    /\ req'[r].pc = "charged"
    /\ req'[r].in = q

----------------------------------------------------------------------------
(* The headers of a response *)

\* the header that names the limit of a window
LimitHeaderOf(w) ==
    CASE w = SecondTimeWindow -> HeaderRateLimitLimitSecond
      [] w = HourTimeWindow -> HeaderRateLimitLimitHour
      [] w = MonthTimeWindow -> HeaderRateLimitLimitMonth

\* C13: in the response to every metered request, admitted or rejected, the
\* header X-RateLimit-Limit-Second, -Hour or -Month is present exactly when the
\* limit of that window in the quota applied to the request is positive, and
\* its value is that limit in decimal
C13_WindowHeaderIffEnforced ==
    \A r \in Reqs : Decided(r) =>
        \A w \in Windows :
            /\ LimitHeaderOf(w) \in DOMAIN req[r].headers <=> LimitOf(req[r].seen, w) > 0
            /\ LimitHeaderOf(w) \in DOMAIN req[r].headers =>
                   req[r].headers[LimitHeaderOf(w)] = ToString(LimitOf(req[r].seen, w))

\* a response under a quota of the hour alone carries the hour's header and
\* not the second's
C13_Witness ==
    \E r \in Reqs :
        /\ Decided(r)
        /\ req[r].seen = Quota(0, 5, 0)
        /\ req[r].headers[HeaderRateLimitLimitHour] = "5"
        /\ HeaderRateLimitLimitSecond \notin DOMAIN req[r].headers

\* the response of the request is under way or sent: the middleware has set
\* what it sets
Answered(r) == req[r].pc \in {"rejected", "serving", "served", "done"}

\* the three headers of the verdict
VerdictHeaders == {HeaderRateLimitLimit, HeaderRateLimitRemaining, HeaderRateLimitReset}

\* C14: the response to every selected request carries X-RateLimit-Limit,
\* X-RateLimit-Remaining and X-RateLimit-Reset, whichever way it was answered:
\* admitted, rejected, admitted after the charge failed, or by the fallback
\* limiter
C14_VerdictHeadersOnEveryPath ==
    \A r \in Reqs :
        Answered(r) /\ req[r].in.selected => VerdictHeaders \subseteq DOMAIN req[r].headers

----------------------------------------------------------------------------
(* The usage scanner *)

\* this step is the write of a pass to api_statistics, the end of a pass that
\* has written
UpsertStep == scanner.pc = "scanned" /\ scanner'.pc = "written"
DelStep == scanner.pc = "written" /\ scanner'.pc = "idle"

\* the row of every one of the keys holds the key's value, as it does after a
\* pass when no request has touched the keys since
RowsCurrent(keys) ==
    \A k \in keys :
        /\ k \in DOMAIN store
        /\ EntryOf(k) \in DOMAIN db.api_statistics
        /\ db.api_statistics[EntryOf(k)] = store[k].val

\* the stats keys of the hour the clock is in
OpenKeys == { k \in ScanStats(store) : ParseHour(k[3]) = HourOf(now) }

\* C15: a pass over keys whose rows already hold their values, as after a pass
\* with no request activity since, changes no row, and the end of a pass leaves
\* the keys of the open hour as they are; a stats key of a closed hour is
\* removed once in its lifetime: once the scanner has removed it, it is not in
\* the store again and is not removed a second time
C15_PassesIdempotentKeysRemovedOnce ==
    /\ [][UpsertStep /\ RowsCurrent(scanner.keys) => db' = db]_vars
    /\ [][DelStep => \A k \in OpenKeys : k \in DOMAIN store' /\ store'[k] = store[k]]_vars
    /\ [](\A k \in DOMAIN deleted : k \notin DOMAIN store)
    /\ [](\A k \in DOMAIN deleted : deleted[k] <= 1)

\* a request charged to the stats key is still in flight
InFlight(k) ==
    \E r \in Reqs :
        /\ req[r].pc \in {"charged", "rejected", "serving", "served"}
        /\ req[r].rl.RedisStatsKey = k

\* C16: once the hour of a stats key is closed, every request charged to the
\* key is reconciled and the scanner has deleted the key and is between two
\* passes, the key's row in api_statistics holds the number of requests charged
\* to the key that ended with status 200, whatever the interleaving of charges,
\* reconciliations and the scanner's read, write and delete was
C16_RowCountsCompletedRequests ==
    \A k \in DOMAIN deleted :
        /\ ParseHour(k[3]) < HourOf(now)
        /\ ~InFlight(k)
        /\ k \notin DOMAIN store
        /\ scanner.pc = "idle"
        => /\ EntryOf(k) \in DOMAIN db.api_statistics
           /\ db.api_statistics[EntryOf(k)] = Count(tally, k)

----------------------------------------------------------------------------
(* Weights and buckets *)

\* the routes of the model
Routes == { RouteA, RouteHeavy }

\* what a refresh with these rows is said to leave for a route: the row's
\* weight and bucket, and weight 1 in the default bucket for a route without
\* a row
LatestOf(rows, route) ==
    IF route \in DOMAIN rows
    THEN [Weight |-> rows[route].weight, Bucket |-> BucketOf(rows[route])]
    ELSE [Weight |-> 1, Bucket |-> defaultBucket]

\* the bucket in the name of a window's counter
BucketIn(key) == IF key[2] = SecondTimeWindow THEN key[3] ELSE key[4]

\* the step is a refresh of the weights with these rows
RefreshedWith(rows) ==
    /\ req' = req
    /\ <<weights, buckets>>' # <<weights, buckets>>
    /\ weights' = [e \in DOMAIN rows |-> rows[e].weight]

\* C17: after every successful weights refresh the lookup of a route gives the
\* weight and the bucket of the route's row in that refresh, and gives weight 1
\* and the bucket "default" for a route that has no row in that refresh, also
\* when it had one in an earlier refresh; a request adds the weight of the
\* lookup to its counters under the bucket of the lookup
C17_LookupFollowsLatestRows ==
    /\ [][\A rows \in WeightsRowSets : RefreshedWith(rows) =>
             \A route \in Routes :
                 /\ (IF route \in DOMAIN weights' THEN weights'[route] ELSE 1)
                        = LatestOf(rows, route).Weight
                 /\ (IF route \in DOMAIN buckets' THEN buckets'[route] ELSE defaultBucket)
                        = LatestOf(rows, route).Bucket]_vars
    /\ [][\A r \in Reqs, q \in WeightsRequests : ChargedNow(r, q) =>
             /\ req'[r].rl.Weight = getWeight(q.route).Weight
             /\ req'[r].rl.Bucket = getWeight(q.route).Bucket
             /\ \A i \in 1..Len(req'[r].issued) :
                    req'[r].issued[i].op = "incrby" =>
                        /\ req'[r].issued[i].arg = getWeight(q.route).Weight
                        /\ BucketIn(req'[r].issued[i].key) = getWeight(q.route).Bucket]_vars

----------------------------------------------------------------------------
(* The course of a request *)

\* the request was charged: rateLimitRequest got past pipe.Exec
Metered(r) == req[r].path \in {"metered", "panicked"}

\* the steps a metered request takes: charged on arrival, then rejected or
\* passed to the handler, then reconciled after the 429 or after the handler
\* has returned
Course ==
    { <<"idle", "charged">>, <<"charged", "rejected">>, <<"charged", "serving">>,
      <<"serving", "served">>, <<"rejected", "done">>, <<"served", "done">> }

\* the request has ended rejected: 429 sent, the handler never called
EndedRejected(r) ==
    /\ req[r].sent = StatusTooManyRequests
    /\ req[r].handlerCalls = 0
    /\ req[r].reconciled # "no"

\* the request has ended completed: the handler was called once and has
\* returned, and the status it left was passed to the reconciliation
EndedCompleted(r) ==
    /\ req[r].handlerCalls = 1
    /\ req[r].reconciled # "no"

\* C18: a metered request is charged on arrival and then either rejected or
\* admitted, never both and never neither; the handler is called once for an
\* admitted request and never for a rejected one; the reconciliation runs at
\* most once, after the 429 was written or after the handler has returned; a
\* request that is over has ended rejected with 429 or completed with the
\* handler's status
C18_RequestCourse ==
    /\ [][\A r \in Reqs :
             (\A o \in Reqs : req[o].pc # "done") /\ Metered(r)' /\ req'[r].pc # req[r].pc
             => <<req[r].pc, req'[r].pc>> \in Course]_vars
    /\ [](\A r \in Reqs : Metered(r) =>
             /\ req[r].pc = "rejected" => req[r].handlerCalls = 0
             /\ req[r].pc \in {"charged", "serving"} => req[r].handlerCalls = 0
             /\ req[r].pc = "served" => req[r].handlerCalls = 1
             /\ req[r].pc # "done" => req[r].reconciled = "no" /\ req[r].refund = <<>>
             /\ req[r].pc = "done" => EndedRejected(r) \/ EndedCompleted(r))

----------------------------------------------------------------------------
(* Requests beside a limits refresh *)

\* rateLimitRequest has read the request's quota a second time, for the decision
\* and the headers
Evaluated(r) == Metered(r) /\ Answered(r)

\* C19: the quota triple a request reads to choose the windows it charges and
\* the triple it reads for its decision and its headers are the same triple,
\* the one before a concurrent limits refresh or the one after it, whether the
\* quota is a user's or the reserved one of requests without a key and of
\* users without a quota row; the windows charged are the windows evaluated
C19_OneTriplePerRequest ==
    \A r \in Reqs : Evaluated(r) =>
        /\ req[r].used = req[r].seen
        /\ Enforced(req[r].used) = Enforced(req[r].seen)

\* the triple of the product row of this name that the last successful limits
\* refresh read
ProductTriple(name) ==
    LET rows == DBGetCurrentApiProducts(refreshedAt)
        row == rows[CHOOSE i \in 1..Len(rows) : rows[i].name = name]
    IN [Second |-> row.second, Hour |-> row.hour, Month |-> row.month]

\* C20: after a successful limits refresh that read the product rows nokey and
\* free, a request whose key is not known is charged under the triple of the
\* nokey row, and a request with a known key whose user has no quota of its own
\* is charged under the triple of the free row, whether the two triples are
\* equal or differ
C20_ReservedQuotasApart ==
    [][\A r \in Reqs, q \in LimitsRequests : ChargedNow(r, q) =>
          /\ q.query \notin DOMAIN userIdByApiKey => req'[r].seen = ProductTriple("nokey")
          /\ (/\ q.query \in DOMAIN userIdByApiKey
              /\ userIdByApiKey[q.query] \notin DOMAIN rateLimitsByUserId)
             => req'[r].seen = ProductTriple("free")]_vars

----------------------------------------------------------------------------
(* Failed passes of the refreshers *)

\* a pass of updateWeights or of updateRateLimits has returned an error: Beginx,
\* one of the two selects, Commit or DBGetCurrentApiProducts, or the weights
\* query
RefreshFailed ==
    /\ faults' = faults + 1
    /\ req' = req
    /\ store' = store
    /\ scanner' = scanner

\* C21: a limits pass of which a relational step fails, or a weights pass of
\* which the query fails, leaves the key table, the user-quota table, the
\* interning table, the reserved quota, the weights and buckets tables and
\* both watermarks as they were, and does not fire the latch
C21_FailedPassWritesNothing ==
    [][RefreshFailed =>
          /\ UNCHANGED <<userIdByApiKey, rateLimitsByUserId, rateLimits, NoKeyRateLimit>>
          /\ UNCHANGED <<weights, buckets>>
          /\ UNCHANGED <<lastRateLimitUpdateKeys, lastRateLimitUpdateRateLimits>>
          /\ UNCHANGED <<initializedWg, firstRun>>]_vars

\* a pass has failed while the limits latch was still to be fired and the
\* weights were installed
C21_Witness ==
    /\ faults = 1
    /\ firstRun["limits"]
    /\ ~firstRun["weights"]
    /\ weights # EmptyMap

----------------------------------------------------------------------------
(* Writers of api_keys and api_ratelimits beside the limits refresher *)

Key2 == "key2"
UserId2 == 2

\* the rows the writers commit: two keys, each of its own user, and the quotas
\* of the two users
ConvergeKeys == (Key1 :> UserId1) @@ (Key2 :> UserId2)
ConvergeQuotas == (UserId1 :> UserQuota) @@ (UserId2 :> Quota(0, 3, 0))

\* the now() a committing transaction stamps its rows with is the instant the
\* transaction began: the start of the run or the instant of the commit. A
\* transaction that began at the instant of the commit has committed before
\* the refresher's pass at that instant.
Began(t) ==
    /\ t \in {0, now}
    /\ t = now => refreshedAt < now

\* a writer commits the row of key k, "now() as changed_at", valid until 3000
CommitApiKey(k, t) ==
    /\ Began(t)
    /\ k \notin DOMAIN db.api_keys
    /\ db' = [db EXCEPT !.api_keys = Put(@, k, KeyRow(ConvergeKeys[k], ValidForever, t))]
    /\ UNCHANGED <<latches, lastRateLimitUpdateKeys, lastRateLimitUpdateRateLimits,
                   refreshedAt, scanner, tally, deleted, admitted, dbRuns, clock, redis, redisIsHealthy,
                   tables, weightTables, fallback, req>>

\* a writer commits the quota row of user u
CommitApiRatelimit(u, t) ==
    /\ Began(t)
    /\ u \notin DOMAIN db.api_ratelimits
    /\ db' = [db EXCEPT !.api_ratelimits =
                  Put(@, u, RateLimitRow(ConvergeQuotas[u], ValidForever, t))]
    /\ UNCHANGED <<latches, lastRateLimitUpdateKeys, lastRateLimitUpdateRateLimits,
                   refreshedAt, scanner, tally, deleted, admitted, dbRuns, clock, redis, redisIsHealthy,
                   tables, weightTables, fallback, req>>

\* the reference tables are empty and the limits worker has not passed yet
InitConverge ==
    /\ now = 0
    /\ ticks = 0
    /\ store = EmptyMap
    /\ charges = 0
    /\ faults = 0
    /\ redisIsHealthy = TRUE
    /\ NoKeyRateLimit = Quota(DefaultRateLimitSecond, DefaultRateLimitHour,
                              DefaultRateLimitMonth)
    /\ rateLimits = EmptyMap
    /\ rateLimitsByUserId = EmptyMap
    /\ userIdByApiKey = EmptyMap
    /\ weights = EmptyMap
    /\ buckets = EmptyMap
    /\ clients = EmptyMap
    /\ burst = EmptyMap
    /\ req = [r \in Reqs |-> IdleReq]
    /\ initializedWg = 1
    /\ firstRun = [w \in Workers |-> w = "limits"]
    /\ passes = [w \in Workers |-> IF w = "limits" THEN 0 ELSE 2]
    /\ db = Db(EmptyMap, EmptyMap, BootProducts)
    /\ lastRateLimitUpdateKeys = ZeroTime
    /\ lastRateLimitUpdateRateLimits = ZeroTime
    /\ refreshedAt = ZeroTime
    /\ scanner = IdleScanner
    /\ tally = EmptyMap
    /\ deleted = EmptyMap
    /\ admitted = EmptyMap
    /\ dbRuns = 0

NextConverge ==
    \/ UpdateRateLimits
    \/ \E k \in DOMAIN ConvergeKeys, t \in {0, now} : CommitApiKey(k, t)
    \/ \E u \in DOMAIN ConvergeQuotas, t \in {0, now} : CommitApiRatelimit(u, t)
    \/ Tick

\* Init's goroutine runs updateRateLimits again and again, for ever
SpecConverge == InitConverge /\ [][NextConverge]_vars /\ WF_vars(UpdateRateLimits)

\* the key table holds the binding of the committed row of key k
KeyReflected(k) ==
    /\ k \in DOMAIN userIdByApiKey
    /\ userIdByApiKey[k] = db.api_keys[k].user_id

\* the user-quota table holds the triple of the committed row of user u
QuotaReflected(u) ==
    /\ u \in DOMAIN rateLimitsByUserId
    /\ Deref(rateLimitsByUserId[u]) = ConvergeQuotas[u]

\* C22: every row of api_keys and of api_ratelimits that is committed with a
\* valid_until in the future is reflected in the tables in memory after
\* finitely many successful limits passes that follow its commit, in whatever
\* order the writers commit relative to their changed_at and whatever the
\* watermark is at the commit
C22_TablesConverge ==
    /\ \A k \in DOMAIN ConvergeKeys :
           (k \in DOMAIN db.api_keys) ~> KeyReflected(k)
    /\ \A u \in DOMAIN ConvergeQuotas :
           (u \in DOMAIN db.api_ratelimits) ~> QuotaReflected(u)

----------------------------------------------------------------------------
(* Concurrent requests of callers without a key under one fixed quota *)

AdmissionQuotas == { Quota(0, 2, 0), Quota(0, 3, 0), Quota(2, 3, 0) }
AdmissionRequests == { AnonA1, AnonA2 }

InitAdmission == InitWith({0}, AdmissionQuotas, NoRows)

NextAdmission ==
    \/ \E r \in Reqs, q \in AdmissionRequests : Charge(r, q)
    \/ \E r \in Reqs : Respond(r)
    \/ \E r \in Reqs, script \in ConcurrentScripts : Handle(r, script)
    \/ \E r \in Reqs : PostRateLimit(r)
    \/ \E r \in Reqs : Retire(r)
    \/ Tick

SpecAdmission == InitAdmission /\ [][NextAdmission]_vars

\* C23: for a bucket and an enforced window with limit L under a fixed quota
\* and positive weights, the total weight of the requests that are admitted to
\* the handler and not refunded, in flight or completed with 200, within one
\* lifetime of the window's counter key never exceeds L, under any interleaving
\* of concurrent requests and reconciliations
C23_NoOverAdmission ==
    \A l \in DOMAIN admitted : admitted[l] <= LimitOf(NoKeyRateLimit, l[1][2])

\* two requests admitted under one lifetime of an hour counter are in their
\* handlers at once
C23_Witness ==
    /\ \A r \in Reqs : req[r].pc = "serving" /\ req[r].path = "metered"
    /\ \E l \in DOMAIN admitted : l[1][2] = HourTimeWindow /\ admitted[l] = 2

----------------------------------------------------------------------------
(* The status the reconciliation is given *)

\* the handlers: WriteHeader(200), WriteHeader(500), one that writes a body
\* without WriteHeader and one that writes nothing
HandlerScripts == Scripts \cup { <<WriteCall>> }

NextHandlers ==
    \/ \E r \in OneAtATime, q \in Requests : Charge(r, q)
    \/ \E r \in OneAtATime : Respond(r)
    \/ \E r \in OneAtATime, script \in HandlerScripts : Handle(r, script)
    \/ \E r \in OneAtATime : PostRateLimit(r)
    \/ \E r \in OneAtATime : Retire(r)

SpecHandlers == Init /\ [][NextHandlers]_vars

\* the handler of an admitted request has returned and the client was sent 200
Served200(r) ==
    /\ req[r].path = "metered"
    /\ req[r].handlerCalls = 1
    /\ req[r].sent = StatusOK

\* C24: for every admitted request whose handler produces a 200, by
\* WriteHeader(200), by writing a body without WriteHeader or by returning
\* without writing anything, the reconciliation performs no refund
C24_NoRefundAfter200 ==
    \A r \in Reqs : Served200(r) /\ req[r].pc = "done" =>
        req[r].reconciled = "skipped" /\ req[r].refund = <<>>

----------------------------------------------------------------------------
(* The expiry of the counter keys *)

\* the second, hour and month counters the store holds
CounterKeysOf(s) == { k \in DOMAIN s : k[2] \in Windows }

\* the month a month key names
ParseMonth(str) ==
    CHOOSE m \in 0..(MonthOf(now) + 1) : MonthStr(m * HoursPerMonth * MsPerHour) = str

\* the end of the window an hour or a month key names
WindowEnd(k) ==
    IF k[2] = HourTimeWindow THEN NextHourUtc(ParseHour(k[3]) * MsPerHour)
    ELSE NextMonthUtc(ParseMonth(k[3]) * HoursPerMonth * MsPerHour)

\* C25: after any sequence of charges and refunds every second, hour and month
\* counter key in the store has an expiry; a second key expires one second
\* after the first charge of its window and later charges never extend it; hour
\* and month keys expire 60 seconds after the end of their window; a refund
\* never leaves a counter key without an expiry
C25_CounterKeysExpire ==
    /\ [](\A k \in CounterKeysOf(store) :
             /\ store[k].exp # NoExpiry
             /\ k[2] # SecondTimeWindow =>
                    store[k].exp = WindowEnd(k) + ExpireMarginSeconds * MsPerSecond)
    /\ [][\A k \in CounterKeysOf(store') : k[2] = SecondTimeWindow =>
             store'[k].exp = IF k \in DOMAIN store THEN store[k].exp
                             ELSE now + MsPerSecond]_vars

----------------------------------------------------------------------------
(* Stats keys of routes whose path template holds a colon *)

\* the path template "/api/v1/slot/{slot:[0-9]+}" of a route with a pattern,
\* as GetPathTemplate returns it
RoutePattern == <<"/api/v1/slot/{slot", "[0-9]+}">>
AnonPattern == Request("", "", Ip1, RoutePattern, TRUE)

RoutesRequests == { AnonA1, UserA, AnonPattern }

NextRoutes ==
    \/ \E r \in OneAtATime, q \in RoutesRequests : Charge(r, q)
    \/ \E r \in OneAtATime : Respond(r)
    \/ \E r \in OneAtATime, script \in BootScripts : Handle(r, script)
    \/ \E r \in OneAtATime : PostRateLimit(r)
    \/ \E r \in OneAtATime : Retire(r)
    \/ StatsScan
    \/ StatsUpsert
    \/ StatsUpsertFail
    \/ StatsDel
    \/ StatsDelFail
    \/ Tick

SpecRoutes == InitStats /\ [][NextRoutes]_vars

\* C26: every stats key the request path writes, for every route template and
\* every user id or "nokey", is parsed by the scanner into the hour, the user
\* or nokey and the route it was built from, and no stats key makes a pass of
\* the scanner fail, so that every key is upserted and, once its hour is
\* closed, deleted
C26_StatsKeysParsed ==
    /\ [][\A r \in Reqs, q \in RoutesRequests : ChargedNow(r, q) =>
             LET k == req'[r].rl.RedisStatsKey
             IN /\ Len(k) = 5
                /\ EntryOf(k) = <<HourOf(now),
                                  IF req'[r].rl.IsValidKey
                                  THEN ToString(req'[r].rl.UserId) ELSE "nokey",
                                  Join(q.route, ":")>>]_vars
    /\ [](scanner.pc = "scanned" => \A k \in scanner.keys : Len(k) = 5)

----------------------------------------------------------------------------
(* The sub-batch loops of updateStats over a batch of n keys of which d are of
   a closed hour. The keys are their positions: keys[i] is i + 1 of 1..n, and
   keysToDelete[i] is i + 1 of 1..d; a sub-batch s[a:b] is the pair <<a, b>>. *)

\* the sizes of the batch and of keysToDelete the loops are run with
BatchSizes == { 1, 2, 3, mgetSize - 1, mgetSize, mgetSize + 1, 2 * mgetSize - 1,
                2 * mgetSize, 2 * mgetSize + 1 }
DeleteSizes(n) == { d \in {0, 1, 2, delSize - 1, delSize, delSize + 1, n - 1, n} :
                      0 <= d /\ d <= n }

\* the batch loop has parsed the n keys of the batch and collected keysToDelete
BatchStart(n, d) ==
    /\ NoneDone
    /\ scanner.pc = "idle"
    /\ scanner' = [pc |-> "mget", n |-> n, d |-> d, j |-> 0, gets |-> <<>>,
                   counts |-> EmptyMap, dels |-> <<>>]
    /\ UNCHANGED <<latches, database, tally, deleted, admitted, dbRuns, clock, redis, redisIsHealthy,
                   tables, weightTables, fallback, req>>

\* one round of "for j := 0; j <= len(keys); j += mgetSize": MGET of
\* keys[mgetStart:mgetEnd], an error when it is given no key, and the counts
\* written to entries[mgetStart+k]
MGetBatch ==
    /\ NoneDone
    /\ scanner.pc = "mget"
    /\ LET mgetStart == scanner.j
           mgetEnd == Min(scanner.j + mgetSize, scanner.n)
       IN scanner' =
            IF mgetStart = mgetEnd
            THEN [scanner EXCEPT !.pc = "failed",
                                 !.gets = Append(@, <<mgetStart, mgetEnd>>)]
            ELSE [scanner EXCEPT
                     !.pc = IF scanner.j + mgetSize <= scanner.n THEN "mget" ELSE "upsert",
                     !.j = @ + mgetSize,
                     !.gets = Append(@, <<mgetStart, mgetEnd>>),
                     !.counts = [e \in DOMAIN scanner.counts
                                        \cup ((mgetStart + 1)..mgetEnd) |->
                                    IF e \in DOMAIN scanner.counts
                                    THEN scanner.counts[e] ELSE e]]
    /\ UNCHANGED <<latches, database, tally, deleted, admitted, dbRuns, clock, redis, redisIsHealthy,
                   tables, weightTables, fallback, req>>

\* updateStatsEntries has committed; "if len(keysToDelete) > 0" the DEL loop
\* follows
UpsertBatch ==
    /\ NoneDone
    /\ scanner.pc = "upsert"
    /\ scanner' = [scanner EXCEPT !.pc = IF scanner.d > 0 THEN "del" ELSE "over",
                                  !.j = 0]
    /\ UNCHANGED <<latches, database, tally, deleted, admitted, dbRuns, clock, redis, redisIsHealthy,
                   tables, weightTables, fallback, req>>

\* one round of "for j := 0; j <= len(keys); j += delSize": DEL of
\* keysToDelete[delStart:delEnd]; the slice expression panics when delStart is
\* beyond delEnd, and a DEL of no key is an error that is logged
DelBatch ==
    /\ NoneDone
    /\ scanner.pc = "del"
    /\ LET delStart == scanner.j
           delEnd == Min(scanner.j + delSize, scanner.d)
       IN scanner' =
            IF delStart > delEnd
            THEN [scanner EXCEPT !.pc = "panicked"]
            ELSE [scanner EXCEPT
                     !.pc = IF scanner.j + delSize <= scanner.n THEN "del" ELSE "over",
                     !.j = @ + delSize,
                     !.dels = Append(@, <<delStart, delEnd>>)]
    /\ UNCHANGED <<latches, database, tally, deleted, admitted, dbRuns, clock, redis, redisIsHealthy,
                   tables, weightTables, fallback, req>>

\* the pass is over: it has returned, with an error or without, or the
\* goroutine has panicked
BatchEnd ==
    /\ NoneDone
    /\ scanner.pc \in {"over", "failed", "panicked"}
    /\ scanner' = IdleScanner
    /\ UNCHANGED <<latches, database, tally, deleted, admitted, dbRuns, clock, redis, redisIsHealthy,
                   tables, weightTables, fallback, req>>

InitBatches == InitWith({0}, {Quota(0, 5, 0)}, NoRows)

NextBatches ==
    \/ \E n \in BatchSizes : \E d \in DeleteSizes(n) : BatchStart(n, d)
    \/ MGetBatch
    \/ UpsertBatch
    \/ DelBatch
    \/ BatchEnd

SpecBatches == InitBatches /\ [][NextBatches]_vars

\* the sub-batches are none of them empty, none longer than size, and every
\* position of 1..n is in exactly one of them
SubBatchesCover(batches, n, size) ==
    /\ \A i \in 1..Len(batches) :
           batches[i][1] < batches[i][2] /\ batches[i][2] - batches[i][1] <= size
    /\ \A p \in 1..n :
           Cardinality({ i \in 1..Len(batches) :
                            batches[i][1] < p /\ p <= batches[i][2] }) = 1

\* C27: for every batch of n >= 1 keys of which d, 0 <= d <= n, are of a
\* closed hour, the deletion phase completes without slicing out of range and
\* issues DEL sub-batches that are each non-empty and of at most 500 keys and
\* whose union is exactly the d keys
C27_DelSubBatches ==
    /\ scanner.pc # "panicked"
    /\ scanner.pc = "over" => SubBatchesCover(scanner.dels, scanner.d, delSize)

\* C28: for every batch of n >= 1 keys, n a multiple of 500 included, the MGET
\* sub-batches are each non-empty and of at most 500 keys and cover every key
\* of the batch exactly once, and the count stored in each entry is the value
\* read for that entry's own key
C28_MGetSubBatches ==
    /\ scanner.pc # "failed"
    /\ scanner.pc \in {"upsert", "del", "over"} =>
           /\ SubBatchesCover(scanner.gets, scanner.n, mgetSize)
           /\ DOMAIN scanner.counts = 1..scanner.n
           /\ \A e \in DOMAIN scanner.counts : scanner.counts[e] = e

----------------------------------------------------------------------------
(* What a pass of the scanner deletes *)

\* the stats keys this step removes from the store
RemovedStatsKeys == ScanStats(store) \ DOMAIN store'

\* C29: in every pass of the scanner a stats key is deleted only if its hour
\* is strictly before the hour the pass started in, and only after the rows of
\* its batch were upserted and committed in that pass; if the batch fails at
\* key parsing, value parsing or upsert, no key of the batch is deleted
C29_DeleteAfterUpsertClosedHoursOnly ==
    /\ [][\A k \in RemovedStatsKeys :
             /\ ParseHour(k[3]) < HourOf(scanner.start)
             /\ scanner.pc = "written"
             /\ k \in scanner.keys
             /\ EntryOf(k) \in DOMAIN db.api_statistics
             /\ db.api_statistics[EntryOf(k)] = scanner.vals[k]]_vars
    /\ [][scanner.pc = "scanned" /\ scanner'.pc = "idle" => RemovedStatsKeys = {}]_vars

\* a pass has deleted the key of a closed hour and has left the key of the
\* open hour, and a pass has failed
C29_Witness ==
    /\ deleted # EmptyMap
    /\ OpenKeys # {}
    /\ scanner.pc = "idle"

----------------------------------------------------------------------------
(* DBUpdate: the three statements that derive api_keys and api_ratelimits from
   the users, their subscriptions and the products *)

Null == "null"
MaxRuns == 2

PremiumTriple == Quota(10, 100, 1000)
UpdateProducts == BootProducts \cup { ProductRow("premium", PremiumTriple, 0) }

\* the users: users.api_key, the product of the user's active stripe
\* subscription and of the user's active app subscription, Null for none
UpdateUsers == { UserId1, UserId2 }
KeyOfUser == (UserId1 :> Key1) @@ (UserId2 :> Key2)
NoUser == [api_key |-> Null, stripe |-> Null, app |-> Null]

\* current_api_products joined by name: coalesce(cap.second, 0) and so on
Cap(name, t) ==
    IF CurrentRows(name, t) = {} THEN Quota(0, 0, 0)
    ELSE LET p == CHOOSE p \in CurrentRows(name, t) :
                      \A o \in CurrentRows(name, t) : o.valid_from <= p.valid_from
         IN Quota(p.second, p.hour, p.month)

\* greatest(cap1, cap2) of the stripe product and the app product of a user,
\* each 'free' when the user has none
EffectiveQuota(d, u, t) ==
    LET cap1 == Cap(IF d.users[u].stripe = Null THEN "free" ELSE d.users[u].stripe, t)
        cap2 == Cap(IF d.users[u].app = Null THEN "free" ELSE d.users[u].app, t)
    IN Quota(Max(cap1.Second, cap2.Second), Max(cap1.Hour, cap2.Hour),
             Max(cap1.Month, cap2.Month))

\* DBUpdateApiKeys at instant t: a row for every user with an api_key; on
\* conflict the row is written only where its valid_until is another
DBUpdateApiKeys(d, t) ==
    LET holders == { u \in DOMAIN d.users : d.users[u].api_key # Null }
        written == { u \in holders :
                        \/ d.users[u].api_key \notin DOMAIN d.api_keys
                        \/ d.api_keys[d.users[u].api_key].valid_until # ValidForever }
    IN [d EXCEPT !.api_keys =
           [k \in DOMAIN d.api_keys \cup { d.users[u].api_key : u \in written } |->
               IF \E u \in written : d.users[u].api_key = k
               THEN KeyRow(CHOOSE u \in written : d.users[u].api_key = k, ValidForever, t)
               ELSE d.api_keys[k]]]

\* the second, hour and month of a row
TripleOf(row) == Quota(row.second, row.hour, row.month)

\* DBUpdateApiRatelimits at instant t: a row for every user; on conflict the
\* row is written only where second, hour or month is another
DBUpdateApiRatelimits(d, t) ==
    LET written == { u \in DOMAIN d.users :
                        \/ u \notin DOMAIN d.api_ratelimits
                        \/ TripleOf(d.api_ratelimits[u]) # EffectiveQuota(d, u, t) }
    IN [d EXCEPT !.api_ratelimits =
           [u \in DOMAIN d.api_ratelimits \cup written |->
               IF u \in written
               THEN RateLimitRow(EffectiveQuota(d, u, t), ValidForever, t)
               ELSE d.api_ratelimits[u]]]

\* DBInvalidateApiKeys at instant t: the rows still valid of the users that
\* have no row in api_keys end now
DBInvalidateApiKeys(d, t) ==
    LET keyed == { d.api_keys[k].user_id : k \in DOMAIN d.api_keys }
    IN [d EXCEPT !.api_ratelimits =
           [u \in DOMAIN @ |->
               IF @[u].valid_until > t /\ u \notin keyed
               THEN [@[u] EXCEPT !.changed_at = t, !.valid_until = t]
               ELSE @[u]]]

\* DBUpdate: the three statements in their order
DBUpdate ==
    /\ NoneDone
    /\ dbRuns < MaxRuns
    /\ dbRuns' = dbRuns + 1
    /\ db' = DBInvalidateApiKeys(DBUpdateApiRatelimits(DBUpdateApiKeys(db, now), now), now)
    /\ UNCHANGED <<latches, lastRateLimitUpdateKeys, lastRateLimitUpdateRateLimits,
                   refreshedAt, scanner, tally, deleted, admitted, clock, redis,
                   redisIsHealthy, tables, weightTables, fallback, req>>

\* a user creates an API key, or deletes it
SetApiKey(u, k) ==
    /\ NoneDone
    /\ db.users[u].api_key # k
    /\ db' = [db EXCEPT !.users[u].api_key = k]
    /\ UNCHANGED <<latches, lastRateLimitUpdateKeys, lastRateLimitUpdateRateLimits,
                   refreshedAt, scanner, tally, deleted, admitted, dbRuns, clock, redis,
                   redisIsHealthy, tables, weightTables, fallback, req>>

\* a user's stripe subscription begins or ends
SetStripe(u, p) ==
    /\ NoneDone
    /\ db.users[u].stripe # p
    /\ db' = [db EXCEPT !.users[u].stripe = p]
    /\ UNCHANGED <<latches, lastRateLimitUpdateKeys, lastRateLimitUpdateRateLimits,
                   refreshedAt, scanner, tally, deleted, admitted, dbRuns, clock, redis,
                   redisIsHealthy, tables, weightTables, fallback, req>>

\* a user's app subscription begins or ends
SetApp(u, p) ==
    /\ NoneDone
    /\ db.users[u].app # p
    /\ db' = [db EXCEPT !.users[u].app = p]
    /\ UNCHANGED <<latches, lastRateLimitUpdateKeys, lastRateLimitUpdateRateLimits,
                   refreshedAt, scanner, tally, deleted, admitted, dbRuns, clock, redis,
                   redisIsHealthy, tables, weightTables, fallback, req>>

\* no row in api_keys or api_ratelimits yet, no user with a key or a
\* subscription
InitUpdate ==
    /\ now = 0
    /\ ticks = 0
    /\ store = EmptyMap
    /\ charges = 0
    /\ faults = 0
    /\ redisIsHealthy = TRUE
    /\ NoKeyRateLimit = Quota(0, 5, 0)
    /\ rateLimits = EmptyMap
    /\ rateLimitsByUserId = EmptyMap
    /\ userIdByApiKey = EmptyMap
    /\ weights = EmptyMap
    /\ buckets = EmptyMap
    /\ clients = EmptyMap
    /\ burst = EmptyMap
    /\ req = [r \in Reqs |-> IdleReq]
    /\ initializedWg = 0
    /\ firstRun = [w \in Workers |-> FALSE]
    /\ passes = [w \in Workers |-> 2]
    /\ db = [users |-> [u \in UpdateUsers |-> NoUser]]
              @@ Db(EmptyMap, EmptyMap, UpdateProducts)
    /\ lastRateLimitUpdateKeys = ZeroTime
    /\ lastRateLimitUpdateRateLimits = ZeroTime
    /\ refreshedAt = 0
    /\ scanner = IdleScanner
    /\ tally = EmptyMap
    /\ deleted = EmptyMap
    /\ admitted = EmptyMap
    /\ dbRuns = 0

NextUpdate ==
    \/ DBUpdate
    \/ \E u \in UpdateUsers : \E k \in {Null, KeyOfUser[u]} : SetApiKey(u, k)
    \/ \E u \in UpdateUsers, p \in {Null, "premium"} : SetStripe(u, p)
    \/ \E u \in UpdateUsers, p \in {Null, "premium"} : SetApp(u, p)
    \/ Tick

SpecUpdate == InitUpdate /\ [][NextUpdate]_vars

\* C30: after any sequence of DBUpdate runs interleaved with users gaining or
\* losing an API key or changing subscriptions, when a run of DBUpdate
\* completes every user with an API key has a row in api_ratelimits with a
\* valid_until in the future and the second, hour and month of the user's
\* effective quota, also a user whose row an earlier DBInvalidateApiKeys
\* ended and whose quota is what it was
C30_RowsOfKeyHoldersValid ==
    [][dbRuns' = dbRuns + 1 =>
          \A u \in UpdateUsers : db'.users[u].api_key # Null =>
              /\ u \in DOMAIN db'.api_ratelimits
              /\ db'.api_ratelimits[u].valid_until > now
              /\ TripleOf(db'.api_ratelimits[u]) = EffectiveQuota(db', u, now)]_vars

====
